---- MODULE Spec2Model ----
(***************************************************************************)
(* Model of the options-trading control plane: the risk-mode store, the    *)
(* risk evaluator, the de-risk planner and executor, the OPEN issuer, the  *)
(* OPEN executor, the CLOSE executor and the tick orchestrator.            *)
(*                                                                         *)
(* State files are modelled by their decoded content.  Greeks are kept as  *)
(* integers: the per-contract greeks of every symbol are multiples of 12,  *)
(* so every division the planner performs (position-weighted greek divided *)
(* by a remaining quantity of at most 4) is exact.                         *)
(***************************************************************************)
EXTENDS Integers, Sequences, FiniteSets, TLC

\* ------------------------------------------------------------------ bounds
MaxQty == 2            \* largest |net_qty| of a position in an initial book
MaxRawActions == 2     \* longest raw action list of an initial close intent

\* ------------------------------------------------------- program constants
max_abs_delta == 200
max_abs_gamma == 10
max_abs_vega == 20000
buffer_pct_num == 9            \* buffer_pct = 0.90 = 9 / 10
buffer_pct_den == 10
max_contracts_to_close == 500
OMS_INTENT_MAX_AGE_SEC == 300

\* ------------------------------------------------------------ the universe
\* OCC symbols of the positions, in the sorted order the book is written in.
SymSeq == <<"QQQ260320C00600000", "SPY260320P00680000">>
Symbols == {SymSeq[i] : i \in 1..Len(SymSeq)}

\* Per-contract greeks the market yields for each symbol (long one contract).
PcGreeks(sym) ==
    IF sym = "QQQ260320C00600000"
    THEN [delta |-> 60, gamma |-> 6, vega |-> 7200]
    ELSE [delta |-> -48, gamma |-> 12, vega |-> 4800]

Abs(x) == IF x < 0 THEN -x ELSE x
Max0(x) == IF x > 0 THEN x ELSE 0
sgn(x) == IF x > 0 THEN 1 ELSE IF x < 0 THEN -1 ELSE 0

\* str.upper() on the strings the model uses.
Upper(s) ==
    CASE s = "halt" -> "HALT"
      [] s = "normal" -> "NORMAL"
      [] s = "sell" -> "SELL"
      [] s = "buy" -> "BUY"
      [] s = "fallback" -> "FALLBACK"
      [] OTHER -> s

VARIABLES
    risk_mode,          \* risk_mode.json: "MISSING", "UNREADABLE", "NOMODE" or its mode string
    open_intent,        \* open_intent.json
    gate_out,           \* gate_out.json
    open_plan,          \* open_plan.json: the candidate of the last audit snapshot
    oms_open_state,     \* oms_open_state.json
    open_effects,       \* file effects of the last OPEN issuer run, in order
    positions_book,     \* positions_book.json
    positions_log,      \* positions.jsonl: the fills log, one event per line
    close_intent,       \* close_intent.json
    oms_close_state,    \* oms_close_state.json
    portfolio_greeks,   \* portfolio_greeks.json
    derisk_plan,        \* derisk_plan.json
    risk_eval,          \* risk_eval.json
    broker_env,         \* BROKER_MODE / ALLOW_LIVE_ORDERS / LIVE_LIMIT_PRICE and the broker's answers
    fs,                 \* the bytes of each state file and of its temporary file during a write
    file_read,          \* what the last reader of a state file got
    close_lock,         \* oms_close.lock exists
    close_pc,           \* position of each CLOSE executor process started on its own
    open_orders,        \* open_orders.json: the stored status of each tracked order
    poll,               \* what the last run of the order poller fetched and wrote (history)
    sizing,             \* the last call of build_vertical_plan: its inputs and the candidate it returned
    vert,               \* the vertical OPEN state machine: its locals and the snapshots written to oms_state.json
    oms_open_exec_state,\* oms_open_exec_state.json
    exec_effects,       \* journal appends and file effects of the last OPEN executor run, in order
    broker_submits,     \* dedup signatures of the orders submitted to the broker, in order
    rc,                 \* exit code of the last stage process
    tick_pc,            \* position of each tick process ("idle" when it is not running)
    tick_lock,          \* tick.lock exists
    tick_state,         \* tick_state.json
    tick_hist           \* what happened inside the current tick (history)

vars == <<risk_mode, open_intent, gate_out, open_plan, oms_open_state, open_effects,
          positions_book, positions_log, close_intent, oms_close_state, portfolio_greeks,
          derisk_plan, risk_eval, broker_env, fs, file_read, close_lock, close_pc, vert, sizing,
          open_orders, poll,
          oms_open_exec_state, exec_effects, broker_submits, rc,
          tick_pc, tick_lock, tick_state, tick_hist>>

\* Groups of variables a stage leaves alone.
openVars == <<open_intent, open_plan, oms_open_state, open_effects>>
closeVars == <<positions_book, positions_log, close_intent, oms_close_state>>
riskVars == <<portfolio_greeks, derisk_plan, risk_eval>>
execVars == <<oms_open_exec_state, exec_effects, broker_submits>>
envVars == <<broker_env, fs, file_read, close_lock, close_pc, vert, sizing, open_orders, poll>>
tickVars == <<tick_pc, tick_lock, tick_state, tick_hist>>

\* ------------------------------------------------------- risk-mode store
RiskFileVals == {"MISSING", "UNREADABLE", "NOMODE", "NORMAL", "DEGRADED", "HALT", "halt", "BOGUS"}
RiskModes == {"NORMAL", "DEGRADED", "HALT"}

\* risk_mode.set_risk_mode: anything outside the three modes is stored as DEGRADED.
set_risk_mode(mode) ==
    IF Upper(mode) \in RiskModes THEN Upper(mode) ELSE "DEGRADED"

\* risk_mode.ensure_risk_mode_file: the file after the call.
ensure_risk_mode_file_mut(f) == set_risk_mode("NORMAL")
ensure_risk_mode_file(f) == IF f = "MISSING" THEN set_risk_mode("NORMAL") ELSE f

\* risk_mode.get_risk_mode: the mode returned for file content f ("RAISE" when
\* json.load fails).  A missing mode key and an unrecognised mode both yield NORMAL.
get_risk_mode(f) ==
    LET g == ensure_risk_mode_file(f) IN
    IF g = "UNREADABLE" THEN "RAISE"
    ELSE IF g = "NOMODE" THEN "NORMAL"
    ELSE IF Upper(g) \in RiskModes THEN Upper(g)
    ELSE "NORMAL"

\* risk_mode.allow_close_trades
allow_close_trades_mut(f) == get_risk_mode(f) \in {"NORMAL", "DEGRADED", "HALT"}
allow_close_trades(f) == get_risk_mode(f) \in {"NORMAL", "DEGRADED"}

\* risk_mode.allow_open_trades
allow_open_trades(f) == get_risk_mode(f) = "NORMAL"

\* oms_vertical.read_risk_mode: every failure to read yields NORMAL.
read_risk_mode(f) ==
    IF f \in {"MISSING", "UNREADABLE", "NOMODE"} THEN "NORMAL" ELSE Upper(f)

\* oms_open.load_risk_mode: the mode field of the dict used by the issuer.
load_risk_mode(f) ==
    IF f \in {"MISSING", "UNREADABLE", "NOMODE"} THEN "UNKNOWN" ELSE f

\* oms_open.is_open_allowed_by_mode: <<allowed, reason prefix>>.
is_open_allowed_by_mode(rm) ==
    LET mode == Upper(rm) IN
    IF mode = "NORMAL" THEN <<TRUE, "">>
    ELSE IF mode = "DEGRADED" THEN <<FALSE, "RISK_MODE_DEGRADED_OPEN_BLOCKED">>
    ELSE IF mode = "HALT" THEN <<FALSE, "RISK_MODE_HALT_OPEN_BLOCKED">>
    ELSE <<FALSE, "RISK_MODE_UNKNOWN_OPEN_BLOCKED">>

\* ------------------------------------------------------------ OPEN issuer
NoOpenIntent == [present |-> FALSE, candidate |-> "none", has_plan |-> FALSE, qty |-> 0]

\* Candidates the gateway can emit or a gate_out.json can hold.
\* mc_ok: decision.max_contracts is a number (float() accepts it).
CandAllow(n, q) == [name |-> n, allow |-> TRUE, max_contracts |-> q, mc_ok |-> TRUE,
                    n_reasons |-> 0, has_plan |-> TRUE, qty |-> q]
CandBlock(n, r) == [name |-> n, allow |-> FALSE, max_contracts |-> 0, mc_ok |-> TRUE,
                    n_reasons |-> r, has_plan |-> FALSE, qty |-> 0]
NoGateOut == [present |-> FALSE, cands |-> <<>>]
GateOutOf(cs) == [present |-> TRUE, cands |-> cs]

\* oms_open.load_gate_candidates: a missing or non-dict file yields no candidate.
load_gate_candidates(g) == IF g.present THEN g.cands ELSE <<>>

\* oms_open.candidate_score
candidate_score(c) ==
    (IF c.allow THEN 1000 ELSE 0) + c.max_contracts * 10 - c.n_reasons * 50

\* float(max_contracts) raises on a max_contracts that is no number (null, a
\* word, a list): select_best_candidate scores every candidate, so one is enough.
score_raises(cands) == \E i \in 1..Len(cands) : ~cands[i].mc_ok

\* oms_open.select_best_candidate: index of the first candidate with the
\* greatest score (0 when there is none); a later one wins only if strictly better.
RECURSIVE select_from(_, _, _)
select_from(cands, i, best) ==
    IF i > Len(cands) THEN best
    ELSE IF best = 0 \/ candidate_score(cands[i]) > candidate_score(cands[best])
         THEN select_from(cands, i + 1, i)
         ELSE select_from(cands, i + 1, best)
select_best_candidate(cands) == select_from(cands, 1, 0)

OpenFaults == {"none", "plan_write", "intent_write", "state_write"}

\* State written by the __main__ exception handler of oms_open.
OpenErrState == [state |-> "ERROR", reason |-> "EXCEPTION", deleted_stale_intent |-> FALSE,
                 open_intent_written |-> FALSE, candidate |-> "none"]

\* oms_open.main, run as a process.  fault names the atomic_write that raises.
OmsOpen_mut(fault) ==
    LET rm == load_risk_mode(risk_mode)
        al == is_open_allowed_by_mode(rm)
        cands == load_gate_candidates(gate_out)
        bi == select_best_candidate(cands)
        cname == IF bi = 0 THEN "none" ELSE cands[bi].name
        emits == al[1] /\ bi # 0 /\ cands[bi].allow
    IN
    /\ fault = "none"
    /\ open_plan' = cname
    /\ open_intent' = IF emits
                      THEN [present |-> TRUE, candidate |-> cname,
                            has_plan |-> cands[bi].has_plan, qty |-> cands[bi].qty]
                      ELSE open_intent
    /\ oms_open_state' = [state |-> IF al[1] THEN "DONE" ELSE "OPEN_BLOCKED", reason |-> al[2],
                          deleted_stale_intent |-> FALSE, open_intent_written |-> emits,
                          candidate |-> cname]
    /\ open_effects' = <<"write_open_plan", "write_oms_open_state">>
    /\ rc' = 0
OmsOpen(fault) ==
    LET rm == load_risk_mode(risk_mode)
        al == is_open_allowed_by_mode(rm)
        open_allowed == al[1]
        cands == load_gate_candidates(gate_out)
        bi == select_best_candidate(cands)
        cname == IF bi = 0 THEN "none" ELSE cands[bi].name
        deleted == open_intent.present
        st(s, r, w) == [state |-> s, reason |-> r, deleted_stale_intent |-> (deleted /\ ~w),
                        open_intent_written |-> w, candidate |-> cname]
        \* the branch taken after the audit snapshot, as <<state, reason, writes intent>>
        branch == IF ~open_allowed THEN <<"OPEN_BLOCKED", al[2], FALSE>>
                  ELSE IF bi = 0 THEN <<"NO_CANDIDATE", "NO_GATE_CANDIDATE", FALSE>>
                  ELSE IF ~cands[bi].allow THEN <<"CANDIDATE_BLOCKED", "CANDIDATE_NOT_ALLOWED", FALSE>>
                  ELSE <<"DONE", "", TRUE>>
        emits == branch[3]
    IN
    IF score_raises(cands) \/ fault = "plan_write"
    THEN \* select_best_candidate or atomic_write(STATE_OPEN_PLAN) raises: nothing
         \* else of main runs, and the __main__ handler writes the ERROR state
         /\ open_plan' = open_plan
         /\ open_intent' = open_intent
         /\ oms_open_state' = OpenErrState
         /\ open_effects' = <<"write_oms_open_state">>
         /\ rc' = 1
    ELSE
         /\ open_plan' = cname
         /\ IF emits
            THEN IF fault = "intent_write"
                 THEN /\ open_intent' = open_intent
                      /\ oms_open_state' = OpenErrState
                      /\ open_effects' = <<"write_open_plan", "write_oms_open_state">>
                      /\ rc' = 1
                 ELSE /\ open_intent' = [present |-> TRUE, candidate |-> cname,
                                         has_plan |-> cands[bi].has_plan, qty |-> cands[bi].qty]
                      /\ IF fault = "state_write"
                         THEN /\ oms_open_state' = oms_open_state
                              /\ open_effects' = <<"write_open_plan", "write_open_intent">>
                              /\ rc' = 1
                         ELSE /\ oms_open_state' = st("DONE", "", TRUE)
                              /\ open_effects' = <<"write_open_plan", "write_open_intent",
                                                   "write_oms_open_state">>
                              /\ rc' = 0
            ELSE /\ open_intent' = NoOpenIntent
                 /\ IF fault = "state_write"
                    THEN /\ oms_open_state' = oms_open_state
                         /\ open_effects' = <<"write_open_plan", "unlink_open_intent">>
                         /\ rc' = 1
                    ELSE /\ oms_open_state' = st(branch[1], branch[2], FALSE)
                         /\ open_effects' = <<"write_open_plan", "unlink_open_intent",
                                              "write_oms_open_state">>
                         /\ rc' = 0

\* ---------------------------------------------------------- OPEN executor
MaxSubmits == 2        \* broker submissions followed in one behaviour

\* BROKER_MODE, ALLOW_LIVE_ORDERS and LIVE_LIMIT_PRICE of the process environment.
BrokerEnv(m, a, l) == [mode |-> m, allow_live |-> a, limit_price |-> l]
BrokerEnvs == {BrokerEnv("PLAN_ONLY", "0", ""), BrokerEnv("LIVE", "0", "1.25"),
               BrokerEnv("LIVE", "1", ""), BrokerEnv("LIVE", "1", "1.25"),
               BrokerEnv("PAPER", "1", "1.25"), BrokerEnv("LIVE", "1", "abc")}

\* float(limit_price_s): raises ValueError on text that is not a number.
float_ok(text) == text = "1.25"

\* broker_adapter.BrokerAdapter.submit_open: the result for one request.
\* resolve_ok and submit_ok are the broker's answers to the two remote calls.
\* called: client.submit_order was called; raised: the call ended in an exception.
submit_open(env, resolve_ok, submit_ok) ==
    LET res(ok, submitted, called, error) ==
            [ok |-> ok, submitted |-> submitted, called |-> called, error |-> error,
             raised |-> FALSE]
    IN
    IF ~resolve_ok
    THEN res(FALSE, FALSE, FALSE, "RESOLVE_FAILED")
    ELSE IF env.mode = "PLAN_ONLY"
    THEN res(TRUE, FALSE, FALSE, "None")
    ELSE IF env.allow_live # "1"
    THEN res(FALSE, FALSE, FALSE, "LIVE_BLOCKED_SET_ALLOW_LIVE_ORDERS=1")
    ELSE IF env.limit_price = ""
    THEN res(FALSE, FALSE, FALSE, "LIVE_NEEDS_LIMIT_PRICE_SET_LIVE_LIMIT_PRICE")
    ELSE IF ~float_ok(env.limit_price)
    THEN [res(FALSE, FALSE, FALSE, "ValueError") EXCEPT !.raised = TRUE]
    ELSE IF submit_ok
    THEN res(TRUE, TRUE, TRUE, "None")
    ELSE res(FALSE, FALSE, TRUE, "ALPACA_SUBMIT_FAILED")

NoExecState == [state |-> "NONE", reason |-> "None", intent_deleted |-> FALSE, submitted |-> FALSE]

\* broker_adapter._signature_from_request: underlier, expiration, is_call,
\* K_long, K_short and tag are fixed per gateway candidate, qty is the plan's.
signature_from_request(intent) == <<intent.candidate, intent.qty>>

\* oms_open_exec.main.  The executor never reads risk_mode.json.  An order the
\* broker accepted rests at the broker (a DAY limit order) while the ticks go on.
OmsOpenExec_mut(resolve_ok, submit_ok, journal_ok) ==
    LET br == submit_open(broker_env, resolve_ok, submit_ok)
        calls == (IF br.called THEN <<"submit_order">> ELSE <<>>) \o
                 <<IF br.raised THEN "submit_open_raised"
                   ELSE IF br.ok THEN "submit_open_ok" ELSE "submit_open_not_ok">>
    IN
    IF ~open_intent.present
    THEN /\ rc' = 0
         /\ oms_open_exec_state' = [NoExecState EXCEPT !.state = "NO_INTENT",
                                                       !.reason = "NO_OPEN_INTENT"]
         /\ exec_effects' = <<"write_oms_open_exec_state">>
         /\ UNCHANGED <<open_intent, broker_submits>>
    ELSE IF ~open_intent.has_plan
    THEN /\ rc' = 0
         /\ oms_open_exec_state' = [NoExecState EXCEPT !.state = "INTENT_INVALID",
                                       !.reason = "INVALID_INTENT_MISSING_ORDER_PLAN"]
         /\ exec_effects' = <<"journal_OPEN_EXEC_START_ok", "journal_BROKER_TRANSLATE_SUBMIT_fail",
                              "write_oms_open_exec_state">>
         /\ UNCHANGED <<open_intent, broker_submits>>
    ELSE /\ br.submitted => Len(broker_submits) < MaxSubmits
         /\ broker_submits' = IF br.submitted
                              THEN Append(broker_submits, signature_from_request(open_intent))
                              ELSE broker_submits
         /\ IF ~journal_ok
            THEN \* the append of the broker event raises, and so does the append of
                 \* the except handler: the process ends with a traceback
                 /\ rc' = 1
                 /\ exec_effects' = <<"journal_OPEN_EXEC_START_ok">> \o calls \o
                                    <<"journal_append_raised">>
                 /\ UNCHANGED <<open_intent, oms_open_exec_state>>
            ELSE /\ rc' = 0
                 /\ open_intent' = IF br.ok THEN NoOpenIntent ELSE open_intent
                 /\ oms_open_exec_state' =
                       [state |-> IF br.raised THEN "BROKER_ERROR"
                                  ELSE IF br.submitted THEN "OPEN_SUBMITTED"
                                  ELSE "PLAN_ONLY_TRANSLATED",
                        reason |-> br.error, intent_deleted |-> br.ok, submitted |-> br.submitted]
                 /\ exec_effects' =
                       <<"journal_OPEN_EXEC_START_ok">> \o calls \o
                       (IF br.ok
                        THEN <<"unlink_open_intent", "journal_BROKER_TRANSLATE_SUBMIT_ok",
                               "journal_INTENT_CONSUME_OK_ok", "write_oms_open_exec_state">>
                        ELSE <<"journal_BROKER_TRANSLATE_SUBMIT_fail",
                               "write_oms_open_exec_state">>)
OmsOpenExec(resolve_ok, submit_ok, journal_ok) ==
    LET br == submit_open(broker_env, resolve_ok, submit_ok)
        calls == (IF br.called THEN <<"submit_order">> ELSE <<>>) \o
                 <<IF br.raised THEN "submit_open_raised"
                   ELSE IF br.ok THEN "submit_open_ok" ELSE "submit_open_not_ok">>
    IN
    IF ~open_intent.present
    THEN /\ rc' = 0
         /\ oms_open_exec_state' = [NoExecState EXCEPT !.state = "NO_INTENT",
                                                       !.reason = "NO_OPEN_INTENT"]
         /\ exec_effects' = <<"write_oms_open_exec_state">>
         /\ UNCHANGED <<open_intent, broker_submits>>
    ELSE IF ~open_intent.has_plan
    THEN /\ rc' = 0
         /\ oms_open_exec_state' = [NoExecState EXCEPT !.state = "INTENT_INVALID",
                                       !.reason = "INVALID_INTENT_MISSING_ORDER_PLAN"]
         /\ exec_effects' = <<"journal_OPEN_EXEC_START_ok", "journal_BROKER_TRANSLATE_SUBMIT_fail",
                              "write_oms_open_exec_state">>
         /\ UNCHANGED <<open_intent, broker_submits>>
    ELSE /\ br.submitted => Len(broker_submits) < MaxSubmits
         /\ broker_submits' = IF br.submitted
                              THEN Append(broker_submits, signature_from_request(open_intent))
                              ELSE broker_submits
         /\ IF ~journal_ok
            THEN \* the append of the broker event raises, and so does the append of
                 \* the except handler: the process ends with a traceback
                 /\ rc' = 1
                 /\ exec_effects' = <<"journal_OPEN_EXEC_START_ok">> \o calls \o
                                    <<"journal_append_raised">>
                 /\ UNCHANGED <<open_intent, oms_open_exec_state>>
            ELSE /\ rc' = 0
                 /\ open_intent' = IF br.ok THEN NoOpenIntent ELSE open_intent
                 /\ oms_open_exec_state' =
                       [state |-> IF br.raised THEN "BROKER_ERROR"
                                  ELSE IF br.submitted THEN "OPEN_SUBMITTED"
                                  ELSE "PLAN_ONLY_TRANSLATED",
                        reason |-> br.error, intent_deleted |-> br.ok, submitted |-> br.submitted]
                 /\ exec_effects' =
                       <<"journal_OPEN_EXEC_START_ok">> \o calls \o
                       (IF br.ok
                        THEN <<"journal_BROKER_TRANSLATE_SUBMIT_ok", "unlink_open_intent",
                               "journal_INTENT_CONSUME_OK_ok", "write_oms_open_exec_state">>
                        ELSE <<"journal_BROKER_TRANSLATE_SUBMIT_fail",
                               "write_oms_open_exec_state">>)

\* ------------------------------------------------------ portfolio greeks
\* A book maps every symbol to its net quantity; 0 stands for no entry.
EmptyPos == [s \in Symbols |-> 0]
NoBook == [present |-> FALSE, pos |-> EmptyPos]
BookOf(p) == [present |-> TRUE, pos |-> p]

NoGreeks == [present |-> FALSE, positions |-> <<>>, totals |-> [delta |-> 0, gamma |-> 0, vega |-> 0]]

\* market_state.json and the option mids, as a stage finds them when it reads them
\* (the market-data ingest process rewrites them at any time).
MarketStates == {"OK_MIDS", "OK_NOMIDS", "UNREADABLE"}

\* greeks.build_portfolio_greeks, one row: position-weighted greeks of a symbol.
GreeksRow(sym, net_qty, mkt) ==
    [symbol |-> sym, net_qty |-> net_qty,
     delta |-> PcGreeks(sym).delta * net_qty,
     gamma |-> PcGreeks(sym).gamma * net_qty,
     vega |-> PcGreeks(sym).vega * net_qty,
     iv_src |-> IF mkt = "OK_MIDS" THEN "NEWTON" ELSE "FALLBACK_DEFAULT"]

RECURSIVE GreeksRows(_, _, _)
GreeksRows(pos, i, mkt) ==
    IF i > Len(SymSeq) THEN <<>>
    ELSE IF pos[SymSeq[i]] = 0 THEN GreeksRows(pos, i + 1, mkt)
    ELSE <<GreeksRow(SymSeq[i], pos[SymSeq[i]], mkt)>> \o GreeksRows(pos, i + 1, mkt)

RECURSIVE SumRows(_, _)
SumRows(rows, i) ==
    IF i > Len(rows) THEN [delta |-> 0, gamma |-> 0, vega |-> 0]
    ELSE LET r == SumRows(rows, i + 1) IN
         [delta |-> rows[i].delta + r.delta, gamma |-> rows[i].gamma + r.gamma,
          vega |-> rows[i].vega + r.vega]

\* greeks.build_portfolio_greeks as a process: it raises when the book is missing,
\* and when a position has no spot (division by zero in the gamma formula).
BuildPortfolioGreeks(mkt) ==
    LET rows == GreeksRows(positions_book.pos, 1, mkt) IN
    IF ~positions_book.present \/ (mkt = "UNREADABLE" /\ positions_book.pos # EmptyPos)
    THEN /\ rc' = 1
         /\ UNCHANGED portfolio_greeks
    ELSE /\ rc' = 0
         /\ portfolio_greeks' = [present |-> TRUE, positions |-> rows, totals |-> SumRows(rows, 1)]

\* --------------------------------------------------------- risk evaluator
\* portfolio_risk.compute_breaches reads abs_delta, abs_gamma, abs_vega from the
\* totals when the file has them, and the absolute value of the total otherwise.
abs_delta(totals) == IF "abs_delta" \in DOMAIN totals THEN totals.abs_delta ELSE Abs(totals.delta)
abs_gamma(totals) == IF "abs_gamma" \in DOMAIN totals THEN totals.abs_gamma ELSE Abs(totals.gamma)
abs_vega(totals) == IF "abs_vega" \in DOMAIN totals THEN totals.abs_vega ELSE Abs(totals.vega)

\* portfolio_risk.compute_breaches: the breached axes.
compute_breaches_mut(totals) ==
    {x \in {"delta", "gamma", "vega"} :
        \/ x = "delta" /\ abs_delta(totals) >= max_abs_delta
        \/ x = "gamma" /\ abs_gamma(totals) >= max_abs_gamma
        \/ x = "vega" /\ abs_vega(totals) >= max_abs_vega}
compute_breaches(totals) ==
    {x \in {"delta", "gamma", "vega"} :
        \/ x = "delta" /\ abs_delta(totals) > max_abs_delta
        \/ x = "gamma" /\ abs_gamma(totals) > max_abs_gamma
        \/ x = "vega" /\ abs_vega(totals) > max_abs_vega}

\* The reason of compute_breaches: the breaches in the order delta, gamma, vega
\* (joined with " | " in the file), or OK.
breach_reason(totals) ==
    LET b == compute_breaches(totals) IN
    IF b = {} THEN <<"OK">>
    ELSE (IF "delta" \in b THEN <<"DELTA_LIMIT">> ELSE <<>>)
         \o (IF "gamma" \in b THEN <<"GAMMA_LIMIT">> ELSE <<>>)
         \o (IF "vega" \in b THEN <<"VEGA_LIMIT">> ELSE <<>>)

\* portfolio_risk.has_iv_fallback
has_iv_fallback(g) ==
    \E i \in 1..Len(g.positions) :
        Upper(g.positions[i].iv_src) \in {"FALLBACK_DEFAULT", "FALLBACK", "DEFAULT"}

\* portfolio_risk.main: the mode decided.  A missing greeks file reads as {}.
risk_decision(g) ==
    IF compute_breaches(g.totals) # {} THEN "HALT"
    ELSE IF has_iv_fallback(g) THEN "DEGRADED"
    ELSE "NORMAL"

\* portfolio_risk.main: the reason written with the mode.
risk_reason(g) ==
    IF risk_decision(g) = "DEGRADED" THEN <<"IV_FALLBACK_DEFAULT_PRESENT">>
    ELSE breach_reason(g.totals)

NoRiskEval == [present |-> FALSE, mode_decision |-> "NONE", reason |-> <<>>]

\* portfolio_risk.main: risk_eval.json and risk_mode.json carry the same mode and
\* the same reason.
PortfolioRisk ==
    /\ risk_eval' = [present |-> TRUE, mode_decision |-> risk_decision(portfolio_greeks),
                     reason |-> risk_reason(portfolio_greeks)]
    /\ risk_mode' = risk_decision(portfolio_greeks)
    /\ rc' = 0

\* deallocate.main as a process: it raises when portfolio_greeks.json is missing,
\* returns early when the snapshot lacks a leg of the plan (legs_ok false), and
\* otherwise stores DEGRADED or HALT according to the quantity the limits allow.
Deallocate(legs_ok, allowed) ==
    IF ~portfolio_greeks.present
    THEN /\ rc' = 1
         /\ UNCHANGED risk_mode
    ELSE /\ rc' = 0
         /\ risk_mode' = IF ~legs_ok THEN risk_mode
                         ELSE set_risk_mode(IF allowed > 0 THEN "DEGRADED" ELSE "HALT")

\* --------------------------------------------------------- de-risk planner
hard_limits == [max_abs_delta |-> max_abs_delta, max_abs_gamma |-> max_abs_gamma,
                max_abs_vega |-> max_abs_vega]

\* derisk_plan.buffered_limits
buffered_limits(limits) ==
    [max_abs_delta |-> (limits.max_abs_delta * buffer_pct_num) \div buffer_pct_den,
     max_abs_gamma |-> (limits.max_abs_gamma * buffer_pct_num) \div buffer_pct_den,
     max_abs_vega |-> (limits.max_abs_vega * buffer_pct_num) \div buffer_pct_den]

\* derisk_plan.within_limits without the gamma axis.
within_limits_mut(t, limits) ==
    /\ Abs(t.delta) <= limits.max_abs_delta
    /\ Abs(t.vega) <= limits.max_abs_vega

\* derisk_plan.within_limits
within_limits(t, limits) ==
    /\ Abs(t.delta) <= limits.max_abs_delta
    /\ Abs(t.gamma) <= limits.max_abs_gamma
    /\ Abs(t.vega) <= limits.max_abs_vega

\* True division of a by b # 0 (exact on the values the model uses).
Div(a, b) == sgn(a) * sgn(b) * (Abs(a) \div Abs(b))

\* derisk_plan.per_contract_from_row: the row keeps its original position-weighted
\* greeks while net_qty is decremented by the loop.
per_contract_from_row(row) ==
    IF row.net_qty = 0 THEN [delta |-> 0, gamma |-> 0, vega |-> 0]
    ELSE [delta |-> Div(row.delta, row.net_qty), gamma |-> Div(row.gamma, row.net_qty),
          vega |-> Div(row.vega, row.net_qty)]

\* derisk_plan.close_one_contract_effect
close_one_contract_effect(row) ==
    LET pc == per_contract_from_row(row)
        direction == sgn(row.net_qty) IN
    [delta |-> (0 - pc.delta) * direction, gamma |-> (0 - pc.gamma) * direction,
     vega |-> (0 - pc.vega) * direction]

\* derisk_plan.score_row
red_amount(x, dx) == Max0(Abs(x) - Abs(x + dx))
score_row(row, totals, limits) ==
    LET d_over == Max0(Abs(totals.delta) - limits.max_abs_delta)
        g_over == Max0(Abs(totals.gamma) - limits.max_abs_gamma)
        v_over == Max0(Abs(totals.vega) - limits.max_abs_vega)
        eff == close_one_contract_effect(row)
    IN 5 * v_over * red_amount(totals.vega, eff.vega)
       + 3 * g_over * red_amount(totals.gamma, eff.gamma)
       + 1 * d_over * red_amount(totals.delta, eff.delta)

\* rows.sort(key=score, reverse=True)[0]: the first row of the greatest score.
RECURSIVE best_from(_, _, _, _, _)
best_from(work, totals, limits, i, best) ==
    IF i > Len(work) THEN best
    ELSE IF best = 0 \/ score_row(work[i], totals, limits) > score_row(work[best], totals, limits)
         THEN best_from(work, totals, limits, i + 1, i)
         ELSE best_from(work, totals, limits, i + 1, best)
best_row(work, totals, limits) == best_from(work, totals, limits, 1, 0)

RemoveAt(seq, i) == SubSeq(seq, 1, i - 1) \o SubSeq(seq, i + 1, Len(seq))

\* A local variable of the source: x is evaluated once, then F is applied to it.
Bind(x, F(_)) == CHOOSE r \in {F(v) : v \in {x}} : TRUE

\* The greedy loop of derisk_plan.build_derisk_plan, on
\* st = [totals, work, qty (contracts closed per symbol), closed].
\* derisk_step is one iteration of the while loop; it returns st itself when the
\* loop stops (every iteration that closes a contract increments st.closed).
derisk_step(st, limits) ==
    IF ~(st.closed < max_contracts_to_close /\ ~within_limits(st.totals, limits) /\ st.work # <<>>)
    THEN st
    ELSE Bind(best_row(st.work, st.totals, limits), LAMBDA bi :
         Bind(st.work[bi], LAMBDA best :
            IF score_row(best, st.totals, limits) <= 0 THEN st
            ELSE Bind(close_one_contract_effect(best), LAMBDA eff :
                 LET nq2 == best.net_qty - sgn(best.net_qty)
                     w2 == IF nq2 = 0 THEN RemoveAt(st.work, bi)
                           ELSE [st.work EXCEPT ![bi].net_qty = nq2]
                 IN [totals |-> [delta |-> st.totals.delta + eff.delta,
                                 gamma |-> st.totals.gamma + eff.gamma,
                                 vega |-> st.totals.vega + eff.vega],
                     work |-> w2,
                     qty |-> [st.qty EXCEPT ![best.symbol] = @ + 1],
                     closed |-> st.closed + 1])))
RECURSIVE derisk_loop(_, _)
derisk_loop(st, limits) ==
    Bind(derisk_step(st, limits), LAMBDA n : IF n = st THEN st ELSE derisk_loop(n, limits))

\* The totals before the loop and after each of its iterations.
RECURSIVE derisk_trace(_, _)
derisk_trace(st, limits) ==
    Bind(derisk_step(st, limits), LAMBDA n :
        IF n = st THEN <<st.totals>> ELSE <<st.totals>> \o derisk_trace(n, limits))

\* action_list with close_side SELL whatever the sign of net_qty.
RECURSIVE action_list_mut(_, _, _)
action_list_mut(rows, qty, i) ==
    IF i > Len(rows) THEN <<>>
    ELSE IF qty[rows[i].symbol] = 0 THEN action_list_mut(rows, qty, i + 1)
    ELSE <<[symbol |-> rows[i].symbol, close_side |-> "SELL",
            qty |-> qty[rows[i].symbol]]>> \o action_list_mut(rows, qty, i + 1)

\* action_list: one action per symbol with qty > 0, in the order of the rows.
RECURSIVE action_list(_, _, _)
action_list(rows, qty, i) ==
    IF i > Len(rows) THEN <<>>
    ELSE IF qty[rows[i].symbol] = 0 THEN action_list(rows, qty, i + 1)
    ELSE <<[symbol |-> rows[i].symbol,
            close_side |-> IF rows[i].net_qty > 0 THEN "SELL" ELSE "BUY",
            qty |-> qty[rows[i].symbol]]>> \o action_list(rows, qty, i + 1)

NoPlan == [present |-> FALSE, status |-> "NONE", actions |-> <<>>,
           start_totals |-> [delta |-> 0, gamma |-> 0, vega |-> 0],
           end_totals |-> [delta |-> 0, gamma |-> 0, vega |-> 0]]

\* derisk_plan.build_derisk_plan: the plan for a greeks snapshot g.
build_derisk_plan(g) ==
    LET target_limits == buffered_limits(hard_limits) IN
    IF within_limits(g.totals, target_limits)
    THEN [present |-> TRUE, status |-> "NO_ACTION", actions |-> <<>>,
          start_totals |-> g.totals, end_totals |-> g.totals]
    ELSE Bind(derisk_loop([totals |-> g.totals, work |-> g.positions,
                           qty |-> [s \in Symbols |-> 0], closed |-> 0], target_limits),
              LAMBDA fin :
                 [present |-> TRUE,
                  status |-> IF within_limits(fin.totals, target_limits) THEN "OK" ELSE "PARTIAL",
                  actions |-> action_list(g.positions, fin.qty, 1),
                  start_totals |-> g.totals, end_totals |-> fin.totals])

\* The totals held by build_derisk_plan before its loop and after every iteration.
plan_trace(g) ==
    IF ~g.present THEN <<>>
    ELSE derisk_trace([totals |-> g.totals, work |-> g.positions,
                       qty |-> [s \in Symbols |-> 0], closed |-> 0],
                      buffered_limits(hard_limits))

\* derisk_plan.main as a process: read_json raises when portfolio_greeks.json is
\* missing.  It writes derisk_plan.json and nothing else.
DeriskPlan ==
    IF ~portfolio_greeks.present
    THEN /\ rc' = 1
         /\ UNCHANGED derisk_plan
    ELSE /\ rc' = 0
         /\ derisk_plan' = build_derisk_plan(portfolio_greeks)

\* -------------------------------------------------------- de-risk executor
\* The ts of an intent: an ISO timestamp (its epoch second), or a string that
\* datetime.fromisoformat rejects.  NowEpoch is the clock when a stage runs.
NowEpoch == 1000
Stamp(n) == [valid |-> TRUE, epoch |-> n]
BadStamp == [valid |-> FALSE, epoch |-> 0]

NoCloseIntent == [present |-> FALSE, ts |-> BadStamp, actions |-> <<>>]

\* derisk_execute.main: copies the plan's actions into close_intent.json, or
\* deletes a stale intent when the plan has nothing to execute.
DeriskExecute ==
    IF ~derisk_plan.present
    THEN /\ rc' = 1
         /\ UNCHANGED close_intent
    ELSE /\ rc' = 0
         /\ close_intent' =
               IF derisk_plan.status \notin {"OK", "PARTIAL"} \/ derisk_plan.actions = <<>>
               THEN NoCloseIntent
               ELSE [present |-> TRUE, ts |-> Stamp(NowEpoch), actions |-> derisk_plan.actions]

\* ---------------------------------------------------------- CLOSE executor
Sides == <<"BUY", "SELL">>

RECURSIVE agg_qty(_, _, _, _)
\* Total qty of the raw actions on (sym, side) that normalize_actions keeps.
agg_qty(actions, sym, side, i) ==
    IF i > Len(actions) THEN 0
    ELSE (IF actions[i].symbol = sym /\ Upper(actions[i].close_side) = side /\ actions[i].qty > 0
          THEN actions[i].qty ELSE 0) + agg_qty(actions, sym, side, i + 1)

\* oms_close.normalize_actions: aggregated by (symbol, close_side), sorted.
RECURSIVE normalize_from(_, _, _)
normalize_from(actions, i, j) ==
    IF i > Len(SymSeq) THEN <<>>
    ELSE IF j > Len(Sides) THEN normalize_from(actions, i + 1, 1)
    ELSE LET q == agg_qty(actions, SymSeq[i], Sides[j], 1) IN
         (IF q > 0 THEN <<[symbol |-> SymSeq[i], close_side |-> Sides[j], qty |-> q]>> ELSE <<>>)
         \o normalize_from(actions, i, j + 1)
normalize_actions(actions) == normalize_from(actions, 1, 1)

\* oms_close.validate_reduce_only: the breaches of one action against the book.
action_breaches_mut(a, pos) ==
    LET net == pos[a.symbol] IN
    IF net = 0 THEN {"NET_ZERO"}
    ELSE IF net > 0
    THEN (IF a.close_side # "SELL" THEN {"REQUIRES_SELL"} ELSE {})
    ELSE (IF a.close_side # "BUY" THEN {"REQUIRES_BUY"} ELSE {})
action_breaches(a, pos) ==
    LET net == pos[a.symbol] IN
    IF net = 0 THEN {"NET_ZERO"}
    ELSE IF net > 0
    THEN (IF a.close_side # "SELL" THEN {"REQUIRES_SELL"} ELSE {})
         \cup (IF a.qty > net THEN {"QTY_GT_NET"} ELSE {})
    ELSE (IF a.close_side # "BUY" THEN {"REQUIRES_BUY"} ELSE {})
         \cup (IF a.qty > Abs(net) THEN {"QTY_GT_ABS_NET"} ELSE {})

\* Every action is checked against the book as loaded, before any fill.
BreachKinds == {"NET_ZERO", "REQUIRES_SELL", "REQUIRES_BUY", "QTY_GT_NET", "QTY_GT_ABS_NET"}
validate_reduce_only_mut(actions, pos) ==
    {ib \in {1} \X BreachKinds : ib[2] \in action_breaches(actions[1], pos)}
validate_reduce_only(actions, pos) ==
    {ib \in (1..Len(actions)) \X BreachKinds : ib[2] \in action_breaches(actions[ib[1]], pos)}

\* oms_close.apply_fill
apply_fill(pos, sym, side, qty) ==
    [pos EXCEPT ![sym] = IF side = "SELL" THEN @ - qty
                         ELSE IF side = "BUY" THEN @ + qty ELSE @]

RECURSIVE apply_fills(_, _, _)
apply_fills(pos, actions, i) ==
    IF i > Len(actions) THEN pos
    ELSE apply_fills(apply_fill(pos, actions[i].symbol, actions[i].close_side, actions[i].qty),
                     actions, i + 1)

CloseState(s, r, n) == [state |-> s, reason |-> r, steps |-> n]

\* oms_close.parse_iso: epoch seconds, 0 when the string does not parse.
parse_iso(ts) == IF ts.valid THEN ts.epoch ELSE 0

\* oms_close.main: age_sec = int(now_epoch() - parse_iso(intent_ts)), floored at 0.
age_sec_mut(ts) == IF ts.valid THEN Max0(NowEpoch - ts.epoch) ELSE 0
age_sec(ts) == IF NowEpoch - parse_iso(ts) < 0 THEN 0 ELSE NowEpoch - parse_iso(ts)

\* oms_close.main as a process (the process holds oms_close.lock throughout).
OmsClose_mut ==
    LET mode == get_risk_mode(risk_mode)
        actions == normalize_actions(close_intent.actions)
        pos == positions_book.pos
    IN
    /\ risk_mode' = ensure_risk_mode_file(risk_mode)
    /\ UNCHANGED positions_log
    /\ IF mode = "RAISE"
       THEN /\ rc' = 1
            /\ UNCHANGED closeVars
       ELSE /\ rc' = 0
            /\ IF ~allow_close_trades(risk_mode)
               THEN /\ oms_close_state' = CloseState("HALT", "RISK_MODE_BLOCKS_CLOSE", 0)
                    /\ UNCHANGED <<positions_book, close_intent>>
               ELSE IF ~close_intent.present
               THEN /\ oms_close_state' = CloseState("NO_INTENT", "NO_CLOSE_INTENT", 0)
                    /\ UNCHANGED <<positions_book, close_intent>>
               ELSE IF age_sec(close_intent.ts) > OMS_INTENT_MAX_AGE_SEC
               THEN /\ oms_close_state' = CloseState("REJECT", "STALE_INTENT", 0)
                    /\ UNCHANGED <<positions_book, close_intent>>
               ELSE IF actions = <<>>
               THEN /\ oms_close_state' = CloseState("DONE", "NO_ACTIONS_IN_INTENT", 0)
                    /\ close_intent' = NoCloseIntent
                    /\ UNCHANGED positions_book
               ELSE IF validate_reduce_only(actions, pos) # {}
               THEN /\ oms_close_state' = CloseState("REJECT", "REDUCE_ONLY_VIOLATION", 0)
                    /\ UNCHANGED <<positions_book, close_intent>>
               ELSE /\ positions_book' = BookOf(apply_fills(pos, actions, 1))
                    /\ UNCHANGED close_intent
                    /\ oms_close_state' = CloseState("DONE", "None", Len(actions))
OmsClose ==
    LET mode == get_risk_mode(risk_mode)
        actions == normalize_actions(close_intent.actions)
        pos == positions_book.pos
    IN
    /\ risk_mode' = ensure_risk_mode_file(risk_mode)
    /\ UNCHANGED positions_log
    /\ IF mode = "RAISE"
       THEN /\ rc' = 1
            /\ UNCHANGED closeVars
       ELSE /\ rc' = 0
            /\ IF ~allow_close_trades(risk_mode)
               THEN /\ oms_close_state' = CloseState("HALT", "RISK_MODE_BLOCKS_CLOSE", 0)
                    /\ UNCHANGED <<positions_book, close_intent>>
               ELSE IF ~close_intent.present
               THEN /\ oms_close_state' = CloseState("NO_INTENT", "NO_CLOSE_INTENT", 0)
                    /\ UNCHANGED <<positions_book, close_intent>>
               ELSE IF age_sec(close_intent.ts) > OMS_INTENT_MAX_AGE_SEC
               THEN /\ oms_close_state' = CloseState("REJECT", "STALE_INTENT", 0)
                    /\ UNCHANGED <<positions_book, close_intent>>
               ELSE IF actions = <<>>
               THEN /\ oms_close_state' = CloseState("DONE", "NO_ACTIONS_IN_INTENT", 0)
                    /\ close_intent' = NoCloseIntent
                    /\ UNCHANGED positions_book
               ELSE IF validate_reduce_only(actions, pos) # {}
               THEN /\ oms_close_state' = CloseState("REJECT", "REDUCE_ONLY_VIOLATION", 0)
                    /\ UNCHANGED <<positions_book, close_intent>>
               ELSE /\ positions_book' = BookOf(apply_fills(pos, actions, 1))
                    /\ close_intent' = NoCloseIntent
                    /\ oms_close_state' = CloseState("DONE", "None", Len(actions))

\* -------------------------------------- CLOSE executor processes and the lock
MaxClosers == 2        \* CLOSE executor processes that may overlap
CloseProcs == 1..MaxClosers

\* acquire_lock of tick.py and of oms_close.py (the same code): os.open with
\* O_CREAT | O_EXCL succeeds iff the lock file does not exist, and then the file
\* exists.
acquire_lock_mut(lock) == TRUE
acquire_lock(lock) == ~lock

\* oms_close.main, lines 193-202: acquire_lock (os.open with O_CREAT | O_EXCL)
\* succeeded, the process enters the try block holding oms_close.lock.
CloseAcquire(p) ==
    /\ close_pc[p] = "idle"
    /\ acquire_lock(close_lock)
    /\ close_lock' = TRUE
    /\ close_pc' = [close_pc EXCEPT ![p] = "holding"]
    /\ UNCHANGED <<risk_mode, closeVars, rc>>

\* acquire_lock returned False: the lock file exists.
CloseAcquireFail(p) ==
    /\ close_pc[p] = "idle"
    /\ ~acquire_lock(close_lock)
    /\ close_pc' = [close_pc EXCEPT ![p] = "locked"]
    /\ UNCHANGED <<risk_mode, closeVars, rc, close_lock>>

\* The process that found the lock taken writes state LOCKED and returns.
CloseReportLocked(p) ==
    /\ close_pc[p] = "locked"
    /\ oms_close_state' = CloseState("LOCKED", "ANOTHER_OMS_CLOSE_RUNNING", 0)
    /\ rc' = 0
    /\ close_pc' = [close_pc EXCEPT ![p] = "idle"]
    /\ UNCHANGED <<risk_mode, positions_book, positions_log, close_intent, close_lock>>

\* The try block of main, run by the holder of the lock.
CloseBody(p) ==
    /\ close_pc[p] = "holding"
    /\ OmsClose
    /\ close_pc' = [close_pc EXCEPT ![p] = "ran"]
    /\ UNCHANGED close_lock

\* The finally block: release_lock removes oms_close.lock, on a return and on an
\* exception alike.
CloseRelease_mut(p) ==
    /\ close_pc[p] = "ran"
    /\ close_lock' = close_lock
    /\ close_pc' = [close_pc EXCEPT ![p] = "idle"]
    /\ UNCHANGED <<risk_mode, closeVars, rc>>
CloseRelease(p) ==
    /\ close_pc[p] = "ran"
    /\ close_lock' = FALSE
    /\ close_pc' = [close_pc EXCEPT ![p] = "idle"]
    /\ UNCHANGED <<risk_mode, closeVars, rc>>

\* ------------------------------------------------------- state-file writes
MaxWrites == 2         \* writes of state files followed

StateFiles == {"risk_mode.json", "positions_book.json", "open_intent.json",
               "close_intent.json", "open_orders.json", "tick_state.json"}

\* The bytes of a file: the version of the document being written and how much of
\* it is in the file.  ver 0 is the content before the first write.
Bytes(v, part) == [ver |-> v, part |-> part]
NoFile == Bytes(0, "absent")
Complete(v) == Bytes(v, "full")

\* How the file's writer publishes it: "replace" for the atomic_write functions
\* (json.dump into a sibling temporary file, then os.replace), "write_text" for
\* oms_poll.write_json (Path.write_text on the destination itself).
WriterOf(f) == IF f = "open_orders.json" THEN "write_text" ELSE "replace"

InitFs == [f \in StateFiles |-> [dest |-> Complete(0), tmp |-> NoFile]]
WritesDone == LET RECURSIVE Sum(_)
                  Sum(S) == IF S = {} THEN 0
                            ELSE LET f == CHOOSE x \in S : TRUE
                                 IN (IF fs[f].tmp # NoFile THEN fs[f].tmp.ver ELSE fs[f].dest.ver)
                                    + Sum(S \ {f})
              IN Sum(StateFiles)

\* open(tmp, "w"): the temporary file exists and is empty.
atomic_write_open(f) ==
    /\ WriterOf(f) = "replace"
    /\ fs[f].tmp = NoFile
    /\ WritesDone < MaxWrites
    /\ fs' = [fs EXCEPT ![f].tmp = Bytes(fs[f].dest.ver + 1, "empty")]

\* json.dump(obj, f): the document reaches the temporary file chunk by chunk.
atomic_write_dump(f) ==
    /\ WriterOf(f) = "replace"
    /\ fs[f].tmp.part \in {"empty", "half"}
    /\ fs' = [fs EXCEPT ![f].tmp.part = IF @ = "empty" THEN "half" ELSE "full"]

\* os.replace(tmp, path)
atomic_write_replace(f) ==
    /\ WriterOf(f) = "replace"
    /\ fs[f].tmp.part = "full"
    /\ fs' = [fs EXCEPT ![f] = [dest |-> fs[f].tmp, tmp |-> NoFile]]

\* Path.write_text: open(path, "w") truncates the destination.
write_text_open(f) ==
    /\ WriterOf(f) = "write_text"
    /\ fs[f].dest.part = "full"
    /\ WritesDone < MaxWrites
    /\ fs' = [fs EXCEPT ![f].dest = Bytes(fs[f].dest.ver + 1, "empty")]

\* Path.write_text: the text reaches the destination chunk by chunk.
write_text_write(f) ==
    /\ WriterOf(f) = "write_text"
    /\ fs[f].dest.part \in {"empty", "half"}
    /\ fs' = [fs EXCEPT ![f].dest.part = IF @ = "empty" THEN "half" ELSE "full"]

\* A reader opens the destination and reads what is in it.
read_file(f) == [file |-> f, bytes |-> fs[f].dest]

\* ------------------------------------------------------------ fills ledger
MaxFills == 3          \* longest fills log followed

\* positions_ledger.record_fill: the FILL event appended to positions.jsonl; the
\* side is stored as passed.
record_fill(symbol, qty, side) ==
    [type |-> "FILL", symbol |-> symbol, qty |-> qty, side |-> side]

\* A Python dict: the keys in insertion order and the value of each key.
EmptyDict == [keys |-> <<>>, val |-> EmptyPos]

\* book.load_positions_book, lines 35-46: one event folded into the dict.
book_add(book, evt) ==
    IF evt.type # "FILL" THEN book
    ELSE LET side == Upper(evt.side)
             sign == IF side = "BUY" THEN 1 ELSE IF side = "SELL" THEN -1 ELSE 0
         IN IF sign = 0 THEN book
            ELSE [keys |-> IF \E i \in 1..Len(book.keys) : book.keys[i] = evt.symbol
                           THEN book.keys ELSE Append(book.keys, evt.symbol),
                  val |-> [book.val EXCEPT ![evt.symbol] = @ + sign * evt.qty]]

RECURSIVE book_fold(_, _, _)
book_fold(book, log, i) ==
    IF i > Len(log) THEN book ELSE book_fold(book_add(book, log[i]), log, i + 1)

\* book.load_positions_book: the fold of the log with the flat symbols dropped.
load_positions_book_mut(log) ==
    book_fold(EmptyDict, log, 1)
load_positions_book(log) ==
    LET book == book_fold(EmptyDict, log, 1)
    IN [keys |-> SelectSeq(book.keys, LAMBDA k : book.val[k] # 0), val |-> book.val]

\* sorted(book.items()): insertion sort on the symbol (the keys are distinct).
SymRank(sym) == CHOOSE i \in 1..Len(SymSeq) : SymSeq[i] = sym
RECURSIVE sorted_keys(_)
sorted_keys(keys) ==
    IF keys = <<>> THEN <<>>
    ELSE LET rest == sorted_keys(Tail(keys))
             k == Head(keys)
         IN SelectSeq(rest, LAMBDA x : SymRank(x) < SymRank(k)) \o <<k>> \o
            SelectSeq(rest, LAMBDA x : SymRank(x) >= SymRank(k))

\* book.write_positions_book: the "positions" list of the snapshot.
book_positions(log) ==
    LET book == load_positions_book(log)
        keys == sorted_keys(book.keys)
    IN [i \in 1..Len(keys) |-> [symbol |-> keys[i], net_qty |-> book.val[keys[i]]]]

\* oms_close.positions_to_map on a "positions" list: the book as the stages
\* read it (0 for a symbol without an entry; a later entry replaces an earlier).
RECURSIVE positions_to_map(_)
positions_to_map(positions) ==
    IF positions = <<>> THEN EmptyPos
    ELSE LET n == Len(positions) IN
         [positions_to_map(SubSeq(positions, 1, n - 1))
             EXCEPT ![positions[n].symbol] = positions[n].net_qty]

\* book.main as a process: positions_book.json rebuilt from positions.jsonl.
WritePositionsBook ==
    /\ positions_book' = BookOf(positions_to_map(book_positions(positions_log)))
    /\ rc' = 0
    /\ UNCHANGED positions_log

\* ------------------------------------------------------- pre-trade gateway
\* gateway.main writes the two demo candidates; each is allowed or blocked
\* according to the underlier quote and the sizing, which the market decides.
GatewayOuts ==
    {GateOutOf(<<c1, c2>>) :
        c1 \in {CandAllow("demo1", 10), CandBlock("demo1", 1)},
        c2 \in {CandAllow("demo2", 5), CandBlock("demo2", 1)}}

\* gateway.main as a process: json.load raises on an unreadable market_state.json.
Gateway(mkt, out) ==
    IF mkt = "UNREADABLE"
    THEN /\ rc' = 1
         /\ UNCHANGED gate_out
    ELSE /\ rc' = 0
         /\ gate_out' = out

\* ---------------------------------------------------- gateway sizing
\* Money is kept in cents, so the floor division of the sizing is exact.
MaxRequested == 2      \* largest qty_requested of an intent
QtyRequests == (0 - 1)..MaxRequested

\* worst_1, the worse of the two scenario P&Ls of one spread, as the pricing
\* yields it: a loss beyond the budget, a loss, break-even, a gain.
Worst1s == {-250000, -530, 0, 166}

\* RISK_ACCOUNT_EQUITY * RISK_MAX_DEFINED_RISK_PCT (100000 * 0.02 by default).
Budgets == {200000, 1000, 100}

\* The underlier quote read_market_ctx returns; missing: bid or ask is None.
Quote(bid, ask, missing) == [bid |-> bid, ask |-> ask, missing |-> missing]
Quotes == {Quote(0, 0, TRUE), Quote(0, 100, FALSE), Quote(100, 99, FALSE),
           Quote(60000, 60010, FALSE), Quote(60000, 61000, FALSE)}

\* gateway.validate_underlier_liquidity with max_spread_pct = 1.0; the spread is
\* (ask - bid) / mid * 100, computed by read_market_ctx for a sound quote only.
validate_underlier_liquidity(ctx) ==
    IF ctx.missing THEN <<"NO_UNDERLIER_QUOTE">>
    ELSE IF ctx.bid <= 0 \/ ctx.ask <= 0 \/ ctx.ask < ctx.bid THEN <<"BAD_UNDERLIER_QUOTE">>
    ELSE IF 200 * (ctx.ask - ctx.bid) > ctx.bid + ctx.ask THEN <<"WIDE_UNDERLIER_QUOTE_SPREAD">>
    ELSE <<>>

Min(a, b) == IF a < b THEN a ELSE b

Decision(allow, max_contracts, reasons) ==
    [allow |-> allow, max_contracts |-> max_contracts, reasons |-> reasons]

\* risk_governor.main.decide_vertical_from_plan, lines 89-122.
decide_vertical_from_plan(worst_1, budget, qty_requested) ==
    LET loss_mag == Max0(0 - worst_1) IN
    IF loss_mag <= 0 THEN Decision(TRUE, qty_requested, <<>>)
    ELSE LET max_contracts == budget \div loss_mag IN
         Decision(max_contracts > 0, Min(max_contracts, qty_requested),
                  IF max_contracts <= 0 THEN <<"SIZING_TO_ZERO_BY_LIMITS">> ELSE <<>>)

\* gateway.decide_vertical_safe: an exception of the governor becomes a denial.
decide_vertical_safe(worst_1, budget, qty_requested, raises) ==
    IF raises THEN Decision(FALSE, 0, <<"RISK_GOVERNOR_ERROR">>)
    ELSE decide_vertical_from_plan(worst_1, budget, qty_requested)

\* A candidate: has_plan is FALSE for order_plan null, qty is order_plan.qty.
PlanOut(allow, has_plan, qty, decision) ==
    [allow |-> allow, has_plan |-> has_plan, qty |-> qty, decision |-> decision]

\* gateway.build_vertical_plan
build_vertical_plan(ctx, worst_1, budget, qty, raises) ==
    LET liq_reasons == validate_underlier_liquidity(ctx)
        d == decide_vertical_safe(worst_1, budget, qty, raises)
    IN IF liq_reasons # <<>> THEN PlanOut(FALSE, FALSE, 0, Decision(FALSE, 0, liq_reasons))
       ELSE IF ~d.allow THEN PlanOut(FALSE, FALSE, 0, d)
       ELSE PlanOut(TRUE, TRUE, Min(qty, d.max_contracts), d)

NoSizing == [called |-> FALSE, ctx |-> Quote(0, 0, TRUE), worst_1 |-> 0, budget |-> 0,
             qty_requested |-> 0, raises |-> FALSE,
             out |-> PlanOut(FALSE, FALSE, 0, Decision(FALSE, 0, <<>>))]

\* One call of build_vertical_plan by gateway.main or by the pipeline.
BuildVerticalPlan(ctx, worst_1, budget, qty, raises) ==
    sizing' = [called |-> TRUE, ctx |-> ctx, worst_1 |-> worst_1, budget |-> budget,
               qty_requested |-> qty, raises |-> raises,
               out |-> build_vertical_plan(ctx, worst_1, budget, qty, raises)]

\* ------------------------------------------------------------ order poller
\* The broker's order ids the poller can meet.
OrderIds == {"0a1", "0b2"}

\* The status attribute of a broker order as str() renders it; "None" is None.
RawStatuses == {"OrderStatus.FILLED", "canceled", "cancelled", "rejected", "expired",
                "failed", "OrderStatus.NEW", "partially_filled", "None"}

\* oms_poll.normalize_status on the statuses the model uses.
normalize_status(raw) ==
    CASE raw = "None" -> "unknown"
      [] raw = "OrderStatus.FILLED" -> "filled"
      [] raw = "OrderStatus.NEW" -> "new"
      [] OTHER -> raw

TERMINAL_STATUSES == {"filled", "canceled", "cancelled", "rejected", "expired", "failed"}

\* What the broker answers for one order during a poll: the order is in the open
\* list, or get_order_by_id returns it, or get_order_by_id raises.
FetchOutcomes ==
    {[via |-> v, status |-> st] : v \in {"open_list", "by_id"}, st \in RawStatuses}
        \cup {[via |-> "error", status |-> "None"]}

\* poll_once, lines 437-533, for one id of track_ids with the pruning left to the
\* branch of a changed status only.
poll_entry_mut(stored, out) ==
    IF out.via = "error" THEN stored
    ELSE LET prev_status == IF stored = "untracked" THEN "unknown" ELSE normalize_status(stored)
             status_norm == normalize_status(out.status)
         IN IF status_norm # prev_status /\ status_norm \in TERMINAL_STATUSES
            THEN "untracked" ELSE status_norm

\* poll_once, lines 437-533, for one id of track_ids: the stored status after the
\* poll ("untracked" once pruned); stored is the entry read from the file.
poll_entry(stored, out) ==
    IF out.via = "error" THEN stored
    ELSE LET status_norm == normalize_status(out.status)
         IN IF status_norm \in TERMINAL_STATUSES THEN "untracked" ELSE status_norm

\* The status an id was fetched with in a poll.
Fetched(tracked, out) ==
    IF ~tracked THEN "not_polled"
    ELSE IF out.via = "error" THEN "fetch_failed"
    ELSE normalize_status(out.status)

NoPoll == [done |-> FALSE, state |-> "none", prev |-> [o \in OrderIds |-> "untracked"],
           fetched |-> [o \in OrderIds |-> "not_polled"], changed |-> {}]

\* oms_poll.poll_main: one poll.  client_ok: build_trading_client finds the API
\* keys; without them poll_once raises and only the CLIENT_ERROR state is written.
\* outs: the broker's answer for each id.
PollOnce(client_ok, outs) ==
    LET track_ids == {o \in OrderIds : open_orders[o] # "untracked" \/ outs[o].via = "open_list"}
        fetched == [o \in OrderIds |-> Fetched(o \in track_ids, outs[o])]
        orders_map == [o \in OrderIds |->
                          IF o \in track_ids THEN poll_entry(open_orders[o], outs[o])
                          ELSE "untracked"]
        prev_status(o) == IF open_orders[o] = "untracked" THEN "unknown"
                          ELSE normalize_status(open_orders[o])
    IN IF ~client_ok
       THEN /\ poll' = [NoPoll EXCEPT !.state = "CLIENT_ERROR", !.prev = open_orders]
            /\ UNCHANGED open_orders
       ELSE /\ open_orders' = orders_map
            /\ poll' = [done |-> TRUE,
                        state |-> IF \A o \in OrderIds : orders_map[o] = "untracked"
                                  THEN "NO_ORDERS" ELSE "POLL_OK",
                        prev |-> open_orders,
                        fetched |-> fetched,
                        changed |-> {o \in track_ids : /\ outs[o].via # "error"
                                                       /\ fetched[o] # prev_status(o)}]

\* ------------------------------------------------------------ orchestrator
\* The tick processes that may be started at overlapping times.
MaxTicks == 2
TickProcs == 1..MaxTicks

\* The stages of tick.main, in the order they are started.
StageSeq == <<"portfolio.greeks", "risk_governor.portfolio_risk", "risk_governor.derisk_plan",
              "risk_governor.derisk_execute", "pretrade_gateway.gateway",
              "execution.oms_open", "execution.oms_open_exec", "execution.oms_close">>

StageIndex(name) == CHOOSE i \in 1..Len(StageSeq) : StageSeq[i] = name

NoTickHist == [halted_by |-> "None", eval_mode |-> "none", exec_submitted |-> FALSE,
               exec_consumed |-> FALSE, plan_ran |-> FALSE, plan_trace |-> <<>>,
               stages |-> <<>>]
NoTickState == [present |-> FALSE, ok |-> FALSE, state |-> "NONE", halted_by |-> "None",
                risk_mode |-> "MISSING", open_intent_present |-> FALSE,
                close_intent_present |-> FALSE]


\* tick.main of process p up to the first stage: acquire_lock succeeds and the
\* tick starts.
TickAcquire(p) ==
    /\ tick_pc[p] = "idle"
    /\ acquire_lock(tick_lock)
    /\ tick_lock' = TRUE
    /\ tick_pc' = [tick_pc EXCEPT ![p] = StageSeq[1]]
    /\ tick_hist' = NoTickHist
    /\ open_effects' = <<>>
    /\ exec_effects' = <<>>
    /\ UNCHANGED <<risk_mode, gate_out, open_intent, open_plan, oms_open_state, closeVars,
                   riskVars, envVars, oms_open_exec_state, broker_submits, rc, tick_state>>

\* tick.main after step_run(name): a failing stage halts the tick.
AfterStage_mut(p, name) ==
    /\ tick_pc' = [tick_pc EXCEPT ![p] =
                      IF StageIndex(name) = Len(StageSeq) THEN "finish"
                      ELSE StageSeq[StageIndex(name) + 1]]
    /\ UNCHANGED <<tick_lock, tick_state>>
AfterStage(p, name) ==
    /\ tick_pc' = [tick_pc EXCEPT ![p] =
                      IF rc' # 0 \/ StageIndex(name) = Len(StageSeq) THEN "finish"
                      ELSE StageSeq[StageIndex(name) + 1]]
    /\ UNCHANGED <<tick_lock, tick_state>>

Halted(name) == IF rc' # 0 THEN name ELSE "None"

\* steps.append(step_run(name, ...)): the stages run so far with their results.
Ran(name) == Append(tick_hist.stages, [name |-> name, rc |-> rc'])

TickGreeksIn(p, M) ==
    /\ tick_pc[p] = "portfolio.greeks"
    /\ \E mkt \in M : BuildPortfolioGreeks(mkt)
    /\ AfterStage(p, "portfolio.greeks")
    /\ tick_hist' = [tick_hist EXCEPT !.halted_by = Halted("portfolio.greeks"),
                                      !.stages = Ran("portfolio.greeks")]
    /\ UNCHANGED <<risk_mode, gate_out, openVars, closeVars, derisk_plan, risk_eval, envVars,
                   execVars>>

TickRisk(p) ==
    /\ tick_pc[p] = "risk_governor.portfolio_risk"
    /\ PortfolioRisk
    /\ AfterStage(p, "risk_governor.portfolio_risk")
    /\ tick_hist' = [tick_hist EXCEPT !.halted_by = Halted("risk_governor.portfolio_risk"),
                                      !.stages = Ran("risk_governor.portfolio_risk"),
                                      !.eval_mode = risk_mode']
    /\ UNCHANGED <<gate_out, openVars, closeVars, portfolio_greeks, derisk_plan, envVars,
                   execVars>>

TickPlan(p) ==
    /\ tick_pc[p] = "risk_governor.derisk_plan"
    /\ DeriskPlan
    /\ AfterStage(p, "risk_governor.derisk_plan")
    /\ tick_hist' = [tick_hist EXCEPT !.halted_by = Halted("risk_governor.derisk_plan"),
                                      !.stages = Ran("risk_governor.derisk_plan"),
                                      !.plan_ran = (rc' = 0),
                                      !.plan_trace = plan_trace(portfolio_greeks)]
    /\ UNCHANGED <<risk_mode, gate_out, openVars, closeVars, portfolio_greeks, risk_eval,
                   envVars, execVars>>

TickDeriskExec(p) ==
    /\ tick_pc[p] = "risk_governor.derisk_execute"
    /\ DeriskExecute
    /\ AfterStage(p, "risk_governor.derisk_execute")
    /\ tick_hist' = [tick_hist EXCEPT !.halted_by = Halted("risk_governor.derisk_execute"),
                                      !.stages = Ran("risk_governor.derisk_execute")]
    /\ UNCHANGED <<risk_mode, gate_out, openVars, positions_book, positions_log,
                   oms_close_state, riskVars, envVars, execVars>>

TickGatewayIn(p, M) ==
    /\ tick_pc[p] = "pretrade_gateway.gateway"
    /\ \E mkt \in M, out \in GatewayOuts : Gateway(mkt, out)
    /\ AfterStage(p, "pretrade_gateway.gateway")
    /\ tick_hist' = [tick_hist EXCEPT !.halted_by = Halted("pretrade_gateway.gateway"),
                                      !.stages = Ran("pretrade_gateway.gateway")]
    /\ UNCHANGED <<risk_mode, openVars, closeVars, riskVars, envVars, execVars>>

TickOpenIn(p, F) ==
    /\ tick_pc[p] = "execution.oms_open"
    /\ \E fault \in F : OmsOpen(fault)
    /\ AfterStage(p, "execution.oms_open")
    /\ tick_hist' = [tick_hist EXCEPT !.halted_by = Halted("execution.oms_open"),
                                      !.stages = Ran("execution.oms_open")]
    /\ UNCHANGED <<risk_mode, gate_out, closeVars, riskVars, envVars, execVars>>

TickOpenExecIn(p, B) ==
    /\ tick_pc[p] = "execution.oms_open_exec"
    /\ \E resolve_ok \in B, submit_ok \in B, journal_ok \in B :
           OmsOpenExec(resolve_ok, submit_ok, journal_ok)
    /\ AfterStage(p, "execution.oms_open_exec")
    /\ tick_hist' = [tick_hist EXCEPT !.halted_by = Halted("execution.oms_open_exec"),
                                      !.stages = Ran("execution.oms_open_exec"),
                        !.exec_submitted = (broker_submits' # broker_submits),
                        !.exec_consumed = (open_intent.present /\ ~open_intent'.present)]
    /\ UNCHANGED <<risk_mode, gate_out, open_plan, oms_open_state, open_effects, closeVars,
                   riskVars, envVars>>

TickClose(p) ==
    /\ tick_pc[p] = "execution.oms_close"
    /\ OmsClose
    /\ AfterStage(p, "execution.oms_close")
    /\ tick_hist' = [tick_hist EXCEPT !.halted_by = Halted("execution.oms_close"),
                                      !.stages = Ran("execution.oms_close")]
    /\ UNCHANGED <<gate_out, openVars, riskVars, envVars, execVars>>

\* The finally block of tick.main: summary, tick_state.json, release_lock.
TickFinish(p) ==
    /\ tick_pc[p] = "finish"
    /\ tick_state' = [present |-> TRUE, ok |-> (tick_hist.halted_by = "None"), state |-> "RAN",
                      halted_by |-> tick_hist.halted_by, risk_mode |-> risk_mode,
                      open_intent_present |-> open_intent.present,
                      close_intent_present |-> close_intent.present]
    /\ tick_lock' = FALSE
    /\ tick_pc' = [tick_pc EXCEPT ![p] = "idle"]
    /\ UNCHANGED <<risk_mode, gate_out, openVars, closeVars, riskVars, envVars, execVars, rc, tick_hist>>

TickGreeks(p) == TickGreeksIn(p, MarketStates)
TickGateway(p) == TickGatewayIn(p, MarketStates)
TickOpen(p) == TickOpenIn(p, OpenFaults)
TickOpenExec(p) == TickOpenExecIn(p, BOOLEAN)

\* tick.main of process p when acquire_lock fails: it reports LOCKED and returns.
TickLockedState == [NoTickState EXCEPT !.present = TRUE, !.state = "LOCKED"]

TickAcquireFail(p) ==
    /\ tick_pc[p] = "idle"
    /\ ~acquire_lock(tick_lock)
    /\ tick_pc' = [tick_pc EXCEPT ![p] = "locked"]
    /\ UNCHANGED <<risk_mode, gate_out, openVars, closeVars, riskVars, envVars, execVars, rc,
                   tick_lock, tick_state, tick_hist>>

TickReportLocked(p) ==
    /\ tick_pc[p] = "locked"
    /\ tick_state' = TickLockedState
    /\ tick_pc' = [tick_pc EXCEPT ![p] = "idle"]
    /\ UNCHANGED <<risk_mode, gate_out, openVars, closeVars, riskVars, envVars, execVars, rc,
                   tick_lock, tick_hist>>

\* ---------------------------------------------------------- specification
Quantities == (0 - MaxQty)..MaxQty
Books == {BookOf(p) : p \in [Symbols -> Quantities]}

\* final_plan.json as run_vertical_oms reads it: its status and the legs' qty.
FinalPlan(status, qty) == [status |-> status, qty |-> qty]
FinalPlans ==
    {FinalPlan(st, 0) : st \in {"MISSING", "DENIED", "BLOCKED"}} \cup
    {FinalPlan("PLAN_ONLY", q) : q \in 1..MaxQty}

\* The snapshot written to oms_state.json (lines 97-118).
Snapshot(state, mode, filled_long, filled_short, reason) ==
    [state |-> state, risk_mode |-> mode, filled_long |-> filled_long,
     filled_short |-> filled_short, reason |-> reason]

\* The process as it starts: OmsConfig.mode and the plan on disk.
VertOf(cfg_mode, plan) ==
    [pc |-> "idle", cfg_mode |-> cfg_mode, plan |-> plan, state |-> "INIT",
     filled_long |-> 0, filled_short |-> 0, late |-> FALSE,
     snaps |-> <<>>, fill_modes |-> <<>>]
NoVert == VertOf("PLAN_ONLY", FinalPlan("MISSING", 0))

InitStageFiles ==
    /\ open_plan = "none"
    /\ oms_open_state = OpenErrState
    /\ open_effects = <<>>
    /\ oms_close_state = CloseState("NONE", "None", 0)
    /\ positions_log = <<>>
    /\ fs = InitFs
    /\ close_lock = FALSE
    /\ close_pc = [p \in CloseProcs |-> "idle"]
    /\ vert = NoVert
    /\ sizing = NoSizing
    /\ poll = NoPoll
    /\ file_read = [file |-> "none", bytes |-> NoFile]
    /\ derisk_plan = NoPlan
    /\ risk_eval = NoRiskEval
    /\ oms_open_exec_state = NoExecState
    /\ exec_effects = <<>>
    /\ broker_submits = <<>>
    /\ rc = 0
    /\ tick_pc = [p \in TickProcs |-> "idle"]
    /\ tick_lock = FALSE
    /\ tick_state = NoTickState
    /\ tick_hist = NoTickHist

InitFiles ==
    /\ InitStageFiles
    /\ open_orders = [o \in OrderIds |-> "untracked"]
    /\ portfolio_greeks = NoGreeks

\* The state directory when the timer starts calling the orchestrator.
Init ==
    /\ InitFiles
    /\ risk_mode \in {"MISSING", "HALT"}
    /\ open_intent = NoOpenIntent
    /\ gate_out = NoGateOut
    /\ positions_book \in Books \cup {NoBook}
    /\ close_intent = NoCloseIntent
    /\ broker_env \in {BrokerEnv("PLAN_ONLY", "0", ""), BrokerEnv("LIVE", "1", "1.25")}

Tick ==
    \/ TickAcquire(1)
    \/ TickGreeks(1)
    \/ TickRisk(1)
    \/ TickPlan(1)
    \/ TickDeriskExec(1)
    \/ TickGateway(1)
    \/ TickOpen(1)
    \/ TickOpenExec(1)
    \/ TickClose(1)
    \/ TickFinish(1)

Next ==
    \/ Tick

Spec == Init /\ [][Next]_vars

\* ------------------------------------------- the OPEN issuer run on its own
\* What a gate_out.json can hold: nothing, the gateway's outputs, or any pair of
\* candidate records.
AnyCands(n) == [name : {n}, allow : BOOLEAN, max_contracts : {0, 10, 200}, mc_ok : BOOLEAN,
                n_reasons : {0, 1}, has_plan : BOOLEAN, qty : {5}]
AnyGateOuts == {NoGateOut, GateOutOf(<<>>)} \cup GatewayOuts
               \cup {GateOutOf(<<c1, c2>>) : c1 \in AnyCands("demo1"), c2 \in AnyCands("demo2")}

StaleOpenIntent == [present |-> TRUE, candidate |-> "demo1", has_plan |-> TRUE, qty |-> 10]

InitIssuer ==
    /\ InitFiles
    /\ risk_mode \in RiskFileVals
    /\ open_intent \in {NoOpenIntent, StaleOpenIntent}
    /\ gate_out \in AnyGateOuts
    /\ positions_book = NoBook
    /\ close_intent = NoCloseIntent
    /\ broker_env = BrokerEnv("PLAN_ONLY", "0", "")

IssuerRun ==
    /\ \E fault \in OpenFaults : OmsOpen(fault)
    /\ UNCHANGED <<risk_mode, gate_out, closeVars, riskVars, envVars, execVars, tickVars>>

NextIssuer == IssuerRun

SpecIssuer == InitIssuer /\ [][NextIssuer]_vars

\* ---------------------------------------- the CLOSE executor run on its own
\* Ages of an intent around the executor's max_age_sec.
IntentStamps == {BadStamp, Stamp(NowEpoch + 1), Stamp(NowEpoch - OMS_INTENT_MAX_AGE_SEC),
                 Stamp(NowEpoch - (OMS_INTENT_MAX_AGE_SEC + 1))}
RawSides == {"BUY", "sell"}
\* Raw quantities: none, one contract, a whole position, more than any position.
RawActions == [symbol : Symbols, close_side : RawSides, qty : {0, 1, MaxQty, MaxQty + 1}]

RECURSIVE SeqsUpTo(_, _)
SeqsUpTo(S, n) ==
    IF n = 0 THEN {<<>>}
    ELSE LET shorter == SeqsUpTo(S, n - 1) IN
         shorter \cup {Append(q, x) : q \in {r \in shorter : Len(r) = n - 1}, x \in S}

\* normalize_actions sums the raw actions by (symbol, side) and sorts the result,
\* so the order of the actions in the file is immaterial: one order per list.
ActionRank(a) ==
    ((CHOOSE i \in 1..Len(SymSeq) : SymSeq[i] = a.symbol) * 2
        + (IF a.close_side = "BUY" THEN 0 ELSE 1)) * (MaxQty + 2) + a.qty
RawActionLists ==
    {acts \in SeqsUpTo(RawActions, MaxRawActions) :
        \A i \in 1..(Len(acts) - 1) : ActionRank(acts[i]) <= ActionRank(acts[i + 1])}

CloseIntents == {[present |-> TRUE, ts |-> t, actions |-> acts] :
                    t \in IntentStamps, acts \in RawActionLists}

InitClose ==
    /\ InitFiles
    /\ risk_mode \in RiskFileVals
    /\ open_intent = NoOpenIntent
    /\ gate_out = NoGateOut
    /\ positions_book \in Books \cup {NoBook}
    /\ close_intent \in CloseIntents \cup {NoCloseIntent}
    /\ broker_env = BrokerEnv("PLAN_ONLY", "0", "")

CloseRun ==
    /\ OmsClose
    /\ UNCHANGED <<gate_out, openVars, riskVars, envVars, execVars, tickVars>>

NextClose == CloseRun

SpecClose == InitClose /\ [][NextClose]_vars

\* ------------------------------------------ the evaluator run on its own
\* portfolio_greeks.json as any writer may leave it: totals around the limits,
\* with or without an abs_delta field, and rows of any IV source.
IvSources == {"NEWTON", "BISECT", "FALLBACK_DEFAULT", "fallback", "DEFAULT"}
EvalRows == {[symbol |-> SymSeq[1], net_qty |-> 1, delta |-> 0, gamma |-> 0, vega |-> 0,
              iv_src |-> src] : src \in IvSources}
EvalTotals ==
    LET plain == [delta : {0 - (max_abs_delta + 1), 0 - max_abs_delta, 0, max_abs_delta,
                           max_abs_delta + 1},
                  gamma : {0 - (max_abs_gamma + 1), max_abs_gamma, max_abs_gamma + 1},
                  vega : {0, max_abs_vega, max_abs_vega + 1}]
    IN plain \cup {[delta |-> t.delta, gamma |-> t.gamma, vega |-> t.vega, abs_delta |-> a] :
                      t \in plain, a \in {0, max_abs_delta + 1}}
EvalSnapshots == {[present |-> TRUE, positions |-> rows, totals |-> t] :
                     rows \in SeqsUpTo(EvalRows, 2), t \in EvalTotals}

InitEval ==
    /\ InitStageFiles
    /\ open_orders = [o \in OrderIds |-> "untracked"]
    /\ risk_mode \in {"MISSING", "NORMAL"}
    /\ open_intent = NoOpenIntent
    /\ gate_out = NoGateOut
    /\ positions_book = NoBook
    /\ close_intent = NoCloseIntent
    /\ portfolio_greeks \in EvalSnapshots \cup {NoGreeks}
    /\ broker_env = BrokerEnv("PLAN_ONLY", "0", "")

EvalRun ==
    /\ PortfolioRisk
    /\ UNCHANGED <<gate_out, openVars, closeVars, portfolio_greeks, derisk_plan, envVars,
                   execVars, tickVars>>

NextEval == EvalRun

SpecEval == InitEval /\ [][NextEval]_vars

\* ------------------------------------ ticks started at overlapping times
\* Every tick process runs tick.main; the timer or an operator may start one
\* while another is still running.
InitLock ==
    /\ InitFiles
    /\ risk_mode = "MISSING"
    /\ open_intent = NoOpenIntent
    /\ gate_out = NoGateOut
    /\ positions_book \in {NoBook, BookOf(EmptyPos), BookOf([s \in Symbols |-> 1])}
    /\ close_intent = NoCloseIntent
    /\ broker_env = BrokerEnv("PLAN_ONLY", "0", "")

TickOf(p) ==
    \/ TickAcquire(p)
    \/ TickAcquireFail(p)
    \/ TickReportLocked(p)
    \/ TickGreeks(p)
    \/ TickRisk(p)
    \/ TickPlan(p)
    \/ TickDeriskExec(p)
    \/ TickGateway(p)
    \/ TickOpen(p)
    \/ TickOpenExec(p)
    \/ TickClose(p)
    \/ TickFinish(p)

NextLock == \E p \in TickProcs : TickOf(p)

SpecLock == InitLock /\ [][NextLock]_vars

\* ------------------------------------- the OPEN executor run on its own
\* Every broker environment against the intents an issuer can leave (and one
\* without an order plan).
ExecIntents ==
    {NoOpenIntent} \cup
    {[present |-> TRUE, candidate |-> c, has_plan |-> h, qty |-> q] :
        c \in {"demo1", "demo2"}, h \in BOOLEAN, q \in {5, 10}}

InitExec ==
    /\ InitFiles
    /\ risk_mode \in {"NORMAL", "HALT"}
    /\ open_intent \in ExecIntents
    /\ gate_out = NoGateOut
    /\ positions_book = NoBook
    /\ close_intent = NoCloseIntent
    /\ broker_env \in BrokerEnvs

ExecRun ==
    /\ \E resolve_ok \in BOOLEAN, submit_ok \in BOOLEAN, journal_ok \in BOOLEAN :
           OmsOpenExec(resolve_ok, submit_ok, journal_ok)
    /\ UNCHANGED <<risk_mode, gate_out, open_plan, oms_open_state, open_effects, closeVars,
                   riskVars, envVars, tickVars>>

NextExec == ExecRun

SpecExec == InitExec /\ [][NextExec]_vars

\* --------------------------------- the fills ledger and the CLOSE executor
\* Fills are recorded, the book is rebuilt from the log, and the CLOSE executor
\* consumes a close intent against the book.
FillSides == {<<"BUY", 1>>, <<"SELL", 1>>, <<"sell", 2>>, <<"HOLD", 1>>}
LogNote == [type |-> "NOTE", symbol |-> SymSeq[1], qty |-> 1, side |-> "BUY"]
BookIntents ==
    {[present |-> TRUE, ts |-> Stamp(NowEpoch),
      actions |-> <<[symbol |-> SymSeq[i], close_side |-> Sides[i], qty |-> 1]>>] :
        i \in 1..Len(Sides)}

InitBook ==
    /\ InitFiles
    /\ risk_mode = "NORMAL"
    /\ open_intent = NoOpenIntent
    /\ gate_out = NoGateOut
    /\ positions_book = NoBook
    /\ close_intent \in BookIntents
    /\ broker_env = BrokerEnv("PLAN_ONLY", "0", "")

BookFrame == UNCHANGED <<risk_mode, gate_out, openVars, riskVars, envVars, execVars, tickVars>>

BookRecordFill ==
    /\ Len(positions_log) < MaxFills
    /\ \E sym \in Symbols, sq \in FillSides :
           positions_log' = Append(positions_log, record_fill(sym, sq[2], sq[1]))
    /\ UNCHANGED <<positions_book, close_intent, oms_close_state, rc>>
    /\ BookFrame

\* A line of another type in the log.
BookRecordNote ==
    /\ Len(positions_log) < MaxFills
    /\ positions_log' = Append(positions_log, LogNote)
    /\ UNCHANGED <<positions_book, close_intent, oms_close_state, rc>>
    /\ BookFrame

BookRebuild ==
    /\ WritePositionsBook
    /\ UNCHANGED <<risk_mode, close_intent, oms_close_state>>
    /\ BookFrame

BookClose ==
    /\ OmsClose
    /\ BookFrame

NextBook == BookRecordFill \/ BookRecordNote \/ BookRebuild \/ BookClose

SpecBook == InitBook /\ [][NextBook]_vars

\* ---------------------------------- the stage programs started on their own
\* Every stage is a program of its own (python -m services...): here they run
\* in any order, as an operator may start them.
InitOwner ==
    /\ InitFiles
    /\ risk_mode \in {"MISSING", "HALT"}
    /\ open_intent = NoOpenIntent
    /\ gate_out = NoGateOut
    /\ positions_book \in {NoBook, BookOf([s \in Symbols |-> 1])}
    /\ close_intent = NoCloseIntent
    /\ broker_env = BrokerEnv("PLAN_ONLY", "0", "")

OwnerGreeks ==
    /\ \E mkt \in {"OK_MIDS", "OK_NOMIDS"} : BuildPortfolioGreeks(mkt)
    /\ UNCHANGED <<risk_mode, gate_out, openVars, closeVars, derisk_plan, risk_eval, envVars,
                   execVars, tickVars>>
OwnerEval ==
    /\ PortfolioRisk
    /\ UNCHANGED <<gate_out, openVars, closeVars, portfolio_greeks, derisk_plan, envVars,
                   execVars, tickVars>>
OwnerDealloc ==
    /\ \E legs_ok \in BOOLEAN, allowed \in {0, 1} : Deallocate(legs_ok, allowed)
    /\ UNCHANGED <<gate_out, openVars, closeVars, riskVars, envVars, execVars, tickVars>>
OwnerPlan ==
    /\ DeriskPlan
    /\ UNCHANGED <<risk_mode, gate_out, openVars, closeVars, portfolio_greeks, risk_eval,
                   envVars, execVars, tickVars>>
OwnerDeriskExec ==
    /\ DeriskExecute
    /\ UNCHANGED <<risk_mode, gate_out, openVars, positions_book, positions_log,
                   oms_close_state, riskVars, envVars, execVars, tickVars>>
OwnerGateway ==
    /\ \E out \in GatewayOuts : Gateway("OK_MIDS", out)
    /\ UNCHANGED <<risk_mode, openVars, closeVars, riskVars, envVars, execVars, tickVars>>
OwnerOpen ==
    /\ OmsOpen("none")
    /\ UNCHANGED <<risk_mode, gate_out, closeVars, riskVars, envVars, execVars, tickVars>>
OwnerOpenExec ==
    /\ OmsOpenExec(TRUE, TRUE, TRUE)
    /\ UNCHANGED <<risk_mode, gate_out, open_plan, oms_open_state, open_effects, closeVars,
                   riskVars, envVars, tickVars>>
OwnerClose ==
    /\ OmsClose
    /\ UNCHANGED <<gate_out, openVars, riskVars, envVars, execVars, tickVars>>

\* The stages that only consume the risk mode or never look at it.
OwnerConsumers ==
    \/ OwnerGreeks
    \/ OwnerPlan
    \/ OwnerDeriskExec
    \/ OwnerGateway
    \/ OwnerOpen
    \/ OwnerOpenExec
    \/ OwnerClose

NextOwner == OwnerEval \/ OwnerDealloc \/ OwnerConsumers

SpecOwner == InitOwner /\ [][NextOwner]_vars

\* ------------------------------------------ overlapping CLOSE executors
LockIntents ==
    {NoCloseIntent} \cup
    {[present |-> TRUE, ts |-> t,
      actions |-> <<[symbol |-> SymSeq[1], close_side |-> "SELL", qty |-> q]>>] :
        t \in {Stamp(NowEpoch), BadStamp}, q \in {0, 1, MaxQty + 1}}

InitCloseLock ==
    /\ InitFiles
    /\ risk_mode \in {"NORMAL", "HALT", "UNREADABLE"}
    /\ open_intent = NoOpenIntent
    /\ gate_out = NoGateOut
    /\ positions_book \in {NoBook, BookOf([s \in Symbols |-> 1])}
    /\ close_intent \in LockIntents
    /\ broker_env = BrokerEnv("PLAN_ONLY", "0", "")

CloserOf(p) ==
    /\ \/ CloseAcquire(p)
       \/ CloseAcquireFail(p)
       \/ CloseReportLocked(p)
       \/ CloseBody(p)
       \/ CloseRelease(p)
    /\ UNCHANGED <<gate_out, openVars, riskVars, broker_env, fs, file_read, vert, sizing, open_orders, poll,
                   execVars, tickVars>>

NextCloseLock == \E p \in CloseProcs : CloserOf(p)

SpecCloseLock == InitCloseLock /\ [][NextCloseLock]_vars

\* ------------------------------------ a writer and a reader of a state file
InitFile ==
    /\ InitFiles
    /\ risk_mode = "NORMAL"
    /\ open_intent = NoOpenIntent
    /\ gate_out = NoGateOut
    /\ positions_book = NoBook
    /\ close_intent = NoCloseIntent
    /\ broker_env = BrokerEnv("PLAN_ONLY", "0", "")

FileFrame == UNCHANGED <<risk_mode, gate_out, openVars, closeVars, riskVars, broker_env,
                         close_lock, close_pc, vert, sizing, open_orders, poll,
                         execVars, rc, tickVars>>

FileWriteStep ==
    /\ \E f \in StateFiles :
           \/ atomic_write_open(f)
           \/ atomic_write_dump(f)
           \/ atomic_write_replace(f)
           \/ write_text_open(f)
           \/ write_text_write(f)
    /\ UNCHANGED file_read
    /\ FileFrame

FileReadStep ==
    /\ \E f \in StateFiles : file_read' = read_file(f)
    /\ UNCHANGED fs
    /\ FileFrame

NextFile == FileWriteStep \/ FileReadStep

SpecFile == InitFile /\ [][NextFile]_vars

\* ------------------------------------------- vertical OPEN state machine
\* run_vertical_oms, lines 62-82: the plan is read; a plan that is not PLAN_ONLY
\* ends the run with a FAIL snapshot, a missing plan raises.
VertStart(cfg_mode, plan) ==
    /\ vert.pc = "idle"
    /\ vert' = LET v == VertOf(cfg_mode, plan) IN
               IF plan.status = "MISSING" THEN [v EXCEPT !.pc = "raised"]
               ELSE IF plan.status # "PLAN_ONLY"
               THEN [v EXCEPT !.pc = "returned", !.state = "FAIL",
                              !.snaps = Append(@, Snapshot("FAIL", "none", 0, 0, "PLAN_NOT_READY"))]
               ELSE [v EXCEPT !.pc = "loop"]
    /\ UNCHANGED <<risk_mode, positions_log>>

\* Lines 88-95: the state and the reason after the risk mode and the clock are looked at.
vert_guard(state, mode, late) ==
    IF mode = "HALT" THEN <<"HALT", "RISK_MODE_HALT">>
    ELSE IF late THEN <<"FAIL", "TIMEOUT">>
    ELSE <<state, "None">>

\* Lines 127-162: the transition taken from a non-terminal state; <<next state,
\* filled_long, filled_short, fills recorded>>.
vert_step(state, cfg_mode, plan, filled_long, filled_short) ==
    IF state = "INIT" THEN <<"SUBMIT_LONG", filled_long, filled_short, <<>>>>
    ELSE IF state = "SUBMIT_LONG"
    THEN IF cfg_mode = "PLAN_ONLY"
         THEN <<"SUBMIT_SHORT", plan.qty, filled_short,
                <<record_fill(SymSeq[1], plan.qty, "BUY")>>>>
         ELSE <<"FAIL", filled_long, filled_short, <<>>>>
    ELSE IF state = "SUBMIT_SHORT"
    THEN IF cfg_mode = "PLAN_ONLY"
         THEN <<"DONE", filled_long, filled_long,
                <<record_fill(SymSeq[2], filled_long, "SELL")>>>>
         ELSE <<"FAIL", filled_long, filled_short, <<>>>>
    ELSE <<state, filled_long, filled_short, <<>>>>

\* One iteration of the loop, lines 84-164: the risk mode is read, the snapshot
\* is written, and unless the state is terminal the machine takes one transition.
\* late: more than max_seconds have passed since the start.
VertLoop(late) ==
    /\ vert.pc = "loop"
    /\ vert.late => late
    /\ LET mode == read_risk_mode(risk_mode)
           g == vert_guard(vert.state, mode, late)
           snap == Snapshot(g[1], mode, vert.filled_long, vert.filled_short, g[2])
           t == vert_step(g[1], vert.cfg_mode, vert.plan, vert.filled_long, vert.filled_short)
       IN IF g[1] \in {"DONE", "FAIL", "HALT"}
          THEN /\ vert' = [vert EXCEPT !.pc = "returned", !.state = g[1], !.late = late,
                                       !.snaps = Append(@, snap)]
               /\ UNCHANGED positions_log
          ELSE /\ vert' = [vert EXCEPT !.state = t[1], !.filled_long = t[2],
                                       !.filled_short = t[3], !.late = late,
                                       !.snaps = Append(@, snap),
                                       !.fill_modes = @ \o [i \in 1..Len(t[4]) |-> mode]]
               /\ positions_log' = positions_log \o t[4]
    /\ UNCHANGED risk_mode

\* The risk evaluator or the deallocation planner rewrites risk_mode.json while
\* the machine sleeps between two iterations.
VertRiskWrite(mode) ==
    /\ vert.pc = "loop"
    /\ risk_mode' = set_risk_mode(mode)
    /\ risk_mode' # risk_mode
    /\ UNCHANGED <<vert, positions_log>>

InitVertical ==
    /\ InitFiles
    /\ risk_mode \in {"MISSING", "NORMAL", "DEGRADED", "HALT", "halt"}
    /\ open_intent = NoOpenIntent
    /\ gate_out = NoGateOut
    /\ positions_book = NoBook
    /\ close_intent = NoCloseIntent
    /\ broker_env = BrokerEnv("PLAN_ONLY", "0", "")

VertFrame == UNCHANGED <<gate_out, openVars, positions_book, close_intent, oms_close_state,
                         riskVars, broker_env, fs, file_read, close_lock, close_pc, sizing,
                         open_orders, poll, execVars, rc, tickVars>>

NextVertical ==
    \/ (\E m \in {"PLAN_ONLY", "LIVE"}, pl \in FinalPlans : VertStart(m, pl)) /\ VertFrame
    \/ (\E late \in BOOLEAN : VertLoop(late)) /\ VertFrame
    \/ (\E mode \in RiskModes : VertRiskWrite(mode)) /\ VertFrame

SpecVertical == InitVertical /\ [][NextVertical]_vars

\* ------------------------------------- the gateway sizing of any intent
InitSizing ==
    /\ InitFiles
    /\ risk_mode = "NORMAL"
    /\ open_intent = NoOpenIntent
    /\ gate_out = NoGateOut
    /\ positions_book = NoBook
    /\ close_intent = NoCloseIntent
    /\ broker_env = BrokerEnv("PLAN_ONLY", "0", "")

NextSizing ==
    /\ \E ctx \in Quotes, worst_1 \in Worst1s, budget \in Budgets,
          qty \in QtyRequests, raises \in BOOLEAN :
           BuildVerticalPlan(ctx, worst_1, budget, qty, raises)
    /\ UNCHANGED <<risk_mode, gate_out, openVars, closeVars, riskVars, broker_env, fs,
                   file_read, close_lock, close_pc, vert, open_orders, poll,
                   execVars, rc, tickVars>>

SpecSizing == InitSizing /\ [][NextSizing]_vars

\* ----------------------------------------------- polls of the order poller
\* open_orders.json when the poller starts: missing, or holding entries an
\* operator or an earlier version left, a terminal one among them.
InitPoll ==
    /\ InitStageFiles
    /\ portfolio_greeks = NoGreeks
    /\ open_orders \in [OrderIds -> {"untracked", "unknown", "filled"}]
    /\ risk_mode = "NORMAL"
    /\ open_intent = NoOpenIntent
    /\ gate_out = NoGateOut
    /\ positions_book = NoBook
    /\ close_intent = NoCloseIntent
    /\ broker_env = BrokerEnv("PLAN_ONLY", "0", "")

NextPoll ==
    /\ \E client_ok \in BOOLEAN, outs \in [OrderIds -> FetchOutcomes] : PollOnce(client_ok, outs)
    /\ UNCHANGED <<risk_mode, gate_out, openVars, closeVars, riskVars, broker_env, fs, file_read,
                   close_lock, close_pc, vert, sizing, execVars, rc, tickVars>>

SpecPoll == InitPoll /\ [][NextPoll]_vars

\* ------------------------------- repeated ticks over an unchanged market
\* Books whose totals exceed a hard limit and that hold a position whose
\* one-contract close brings a breached axis closer to zero.
TotalsOf(p) == SumRows(GreeksRows(p, 1, "OK_MIDS"), 1)

AxisOf(r, x) == IF x = "delta" THEN r.delta ELSE IF x = "gamma" THEN r.gamma ELSE r.vega

ReducesBreach(p, sym) ==
    /\ p[sym] # 0
    /\ \E x \in compute_breaches(TotalsOf(p)) :
          Abs(AxisOf(TotalsOf(p), x) - sgn(p[sym]) * AxisOf(PcGreeks(sym), x))
              < Abs(AxisOf(TotalsOf(p), x))

BreachingBooks == {b \in Books : \E sym \in Symbols : ReducesBreach(b.pos, sym)}

InitDerisk ==
    /\ InitFiles
    /\ risk_mode \in {"MISSING"} \cup RiskModes
    /\ open_intent = NoOpenIntent
    /\ gate_out = NoGateOut
    /\ positions_book \in BreachingBooks
    /\ close_intent = NoCloseIntent
    /\ broker_env = BrokerEnv("PLAN_ONLY", "0", "")

\* The stages with the market readable and quoted, and no stage failing.
DeriskGreeks == TickGreeksIn(1, {"OK_MIDS"})
DeriskGateway == TickGatewayIn(1, {"OK_MIDS"})
DeriskOpen == TickOpenIn(1, {"none"})
DeriskOpenExec == TickOpenExecIn(1, {TRUE})

NextDerisk ==
    \/ TickAcquire(1)
    \/ DeriskGreeks
    \/ TickRisk(1)
    \/ TickPlan(1)
    \/ TickDeriskExec(1)
    \/ DeriskGateway
    \/ DeriskOpen
    \/ DeriskOpenExec
    \/ TickClose(1)
    \/ TickFinish(1)

\* The timer starts a tick again and again, and every stage is a process that
\* terminates: a tick that can take its next step eventually takes it.
SpecDerisk == InitDerisk /\ [][NextDerisk]_vars /\ WF_vars(NextDerisk)

\* ================================================================== claims
\* ---- OPEN issuer
IssuerRan == open_effects # <<>>

\* C1: when risk_mode.json holds anything but NORMAL (DEGRADED, HALT, an
\* unrecognised value, a missing or unreadable file) and the OPEN issuer has run,
\* open_intent.json does not exist at its exit, whatever intent existed before
\* and whatever gate_out.json holds.
C1_NoIntentAfterBlockedIssuer ==
    (IssuerRan /\ risk_mode # "NORMAL") => ~open_intent.present

\* C4: when the mode is not NORMAL on entry to the OPEN issuer, deleting
\* open_intent.json is the issuer's first effect, before open_plan.json or
\* oms_open_state.json is written, so that no failing step leaves the intent.
C4_DeletionIsFirstEffect ==
    (IssuerRan /\ risk_mode # "NORMAL") =>
        (open_effects[1] = "unlink_open_intent" /\ ~open_intent.present)

\* ---- one tick
\* C2: in a tick whose evaluator stage wrote DEGRADED or HALT, the OPEN executor
\* stage submits nothing to the broker and consumes no open intent, also when an
\* open_intent.json was left over from an earlier tick.
C2_NoOpenFlowsInDowngradedTick ==
    tick_hist.eval_mode \in {"DEGRADED", "HALT"} =>
        (~tick_hist.exec_submitted /\ ~tick_hist.exec_consumed)

\* The executor stage has run, with live orders enabled, in a tick evaluated
\* DEGRADED whose issuer had deleted an intent left over from an earlier tick.
C2_Witness ==
    /\ tick_pc[1] = "execution.oms_close"
    /\ tick_hist.eval_mode = "DEGRADED"
    /\ oms_open_state.deleted_stale_intent
    /\ oms_open_exec_state.state = "NO_INTENT"
    /\ broker_env.mode = "LIVE"
    /\ broker_env.allow_live = "1"

\* C3: at the end of every tick, completed or halted by a failing stage, in which
\* risk_mode.json ends with a mode other than NORMAL, open_intent.json is absent.
C3_NoIntentAtEndOfDowngradedTick ==
    (tick_pc[1] = "finish" /\ tick_hist.eval_mode \in {"DEGRADED", "HALT"}
        /\ risk_mode = tick_hist.eval_mode)
    => ~open_intent.present

\* C10: after a planner run over a portfolio outside the buffered target,
\* risk_mode.json holds DEGRADED if the plan closes at least one contract and
\* HALT if it closes none.
C10_PlannerPublishesMode ==
    (tick_pc[1] = "risk_governor.derisk_execute" /\ tick_hist.plan_ran
        /\ derisk_plan.status \in {"OK", "PARTIAL"})
    => risk_mode = (IF derisk_plan.actions # <<>> THEN "DEGRADED" ELSE "HALT")

\* ---- CLOSE executor
NormalisedIntent == normalize_actions(close_intent.actions)

\* An action that is not reduce-only against the book: on a symbol whose net is 0
\* (or absent), on the wrong side for the sign of the net, or larger than |net|.
ViolatesReduceOnly(a, pos) ==
    \/ pos[a.symbol] = 0
    \/ pos[a.symbol] > 0 /\ a.close_side # "SELL"
    \/ pos[a.symbol] < 0 /\ a.close_side # "BUY"
    \/ a.qty > Abs(pos[a.symbol])

\* The executor reaches validation: closes allowed, an intent present and fresh,
\* with at least one normalised action.
ReachesValidation ==
    /\ get_risk_mode(risk_mode) \in {"NORMAL", "DEGRADED"}
    /\ close_intent.present
    /\ age_sec(close_intent.ts) <= OMS_INTENT_MAX_AGE_SEC
    /\ NormalisedIntent # <<>>

\* C5: whatever the book and the close intent, a run of the CLOSE executor
\* leaves every symbol with |net_qty'| <= |net_qty| and net_qty' either 0 or of
\* the sign of net_qty; a symbol absent before (net 0) is absent after.
C5_ReduceOnlySoundness ==
    [][\A sym \in Symbols :
          /\ Abs(positions_book'.pos[sym]) <= Abs(positions_book.pos[sym])
          /\ \/ positions_book'.pos[sym] = 0
             \/ sgn(positions_book'.pos[sym]) = sgn(positions_book.pos[sym])]_vars

\* Two normalised actions were applied and a position remains open: a batch
\* accepted by the validator that closed part of the book.
C5_Witness ==
    /\ oms_close_state.state = "DONE"
    /\ oms_close_state.steps = 2
    /\ ~close_intent.present
    /\ \E sym \in Symbols : positions_book.pos[sym] # 0

\* C6: when one normalised action of the batch violates reduce-only, the run
\* ends in REJECT with reason REDUCE_ONLY_VIOLATION and neither the book nor the
\* intent changes: no action of the batch, valid or not, is applied.
C6_BatchRejection ==
    [][(/\ ReachesValidation
        /\ \E i \in 1..Len(NormalisedIntent) :
              ViolatesReduceOnly(NormalisedIntent[i], positions_book.pos))
       => /\ oms_close_state' = CloseState("REJECT", "REDUCE_ONLY_VIOLATION", 0)
          /\ positions_book' = positions_book
          /\ (close_intent' = close_intent)]_vars

\* A rejected batch that holds a valid action next to a violating one.
C6_Witness ==
    /\ oms_close_state = CloseState("REJECT", "REDUCE_ONLY_VIOLATION", 0)
    /\ ReachesValidation
    /\ \E i, j \in 1..Len(NormalisedIntent) :
          /\ ~ViolatesReduceOnly(NormalisedIntent[i], positions_book.pos)
          /\ ViolatesReduceOnly(NormalisedIntent[j], positions_book.pos)

\* C7: a run of the CLOSE executor changes the book only when the mode is NORMAL
\* or DEGRADED; when risk_mode.json holds HALT the run ends in state HALT with
\* reason RISK_MODE_BLOCKS_CLOSE and changes neither the book nor the intent.
C7_ClosesGatedByMode ==
    [][/\ Upper(risk_mode) = "HALT" =>
            /\ oms_close_state' = CloseState("HALT", "RISK_MODE_BLOCKS_CLOSE", 0)
            /\ positions_book' = positions_book
            /\ close_intent' = close_intent
       /\ positions_book' # positions_book =>
            get_risk_mode(risk_mode) \in {"NORMAL", "DEGRADED"}]_vars

\* Under HALT the executor refused a fresh intent that the validator would
\* have accepted.
C7_Witness ==
    /\ risk_mode = "HALT"
    /\ oms_close_state = CloseState("HALT", "RISK_MODE_BLOCKS_CLOSE", 0)
    /\ close_intent.present
    /\ age_sec(close_intent.ts) = 0
    /\ NormalisedIntent # <<>>
    /\ \A i \in 1..Len(NormalisedIntent) :
          ~ViolatesReduceOnly(NormalisedIntent[i], positions_book.pos)

\* C8: a risk_mode.json that is missing, unreadable or holds no recognised mode
\* is treated as HALT by the CLOSE executor: no close is applied.
C8_UnknownModeBlocksClose ==
    [][(risk_mode \in {"MISSING", "UNREADABLE", "NOMODE", "BOGUS"}) =>
          (positions_book' = positions_book)]_vars

\* ---- de-risking
\* C9: from a book over a hard limit that holds a reducing position, repeated
\* ticks eventually apply a reduce-only close to the book, and the mode written
\* HALT by the evaluator is eventually left.
C9_DeriskMakesProgress ==
    /\ <>(oms_close_state.state = "DONE" /\ oms_close_state.steps > 0)
    /\ (tick_hist.eval_mode = "HALT") ~> (risk_mode # "HALT")

\* C11: every single one-contract close step of the planner's greedy loop leaves
\* |total delta|, |total gamma| and |total vega| each no larger than before the step.
StepNoLarger(t1, t2) ==
    /\ Abs(t2.delta) <= Abs(t1.delta)
    /\ Abs(t2.gamma) <= Abs(t1.gamma)
    /\ Abs(t2.vega) <= Abs(t1.vega)
C11_EveryStepMonotoneOnEveryAxis ==
    \A i \in 1..(Len(tick_hist.plan_trace) - 1) :
        StepNoLarger(tick_hist.plan_trace[i], tick_hist.plan_trace[i + 1])

\* C12 as stated: HALT iff |delta| > 200 or |gamma| > 10 or |vega| > 20000 of the
\* totals, the reason listing every breached axis; otherwise DEGRADED with reason
\* IV_FALLBACK_DEFAULT_PRESENT iff some row has iv_src FALLBACK_DEFAULT;
\* otherwise NORMAL with reason OK.
AxisReason(d, g, v) ==
    (IF d THEN <<"DELTA_LIMIT">> ELSE <<>>) \o (IF g THEN <<"GAMMA_LIMIT">> ELSE <<>>)
        \o (IF v THEN <<"VEGA_LIMIT">> ELSE <<>>)
DecisionIs(d, g, v, fb) ==
    /\ risk_mode = risk_eval.mode_decision
    /\ (risk_mode = "HALT") <=> (d \/ g \/ v)
    /\ (risk_mode = "HALT") => risk_eval.reason = AxisReason(d, g, v)
    /\ (risk_mode # "HALT") => /\ (risk_mode = "DEGRADED") <=> fb
                               /\ (risk_mode # "DEGRADED") => risk_mode = "NORMAL"
                               /\ risk_eval.reason = IF fb THEN <<"IV_FALLBACK_DEFAULT_PRESENT">>
                                                     ELSE <<"OK">>
Magnitude(t, abs_key, x) == IF abs_key \in DOMAIN t THEN t[abs_key] ELSE Abs(x)
InTick(p) == tick_pc[p] \notin {"idle", "locked"}
StageFiles == <<risk_mode, gate_out, openVars, closeVars, riskVars, execVars>>
C13_TickMutualExclusion ==
    /\ [](\A p, q \in TickProcs : (p # q) => ~(InTick(p) /\ InTick(q)))
    /\ [][\A p \in TickProcs :
            /\ (tick_pc[p] = "idle" /\ tick_lock /\ tick_pc'[p] # "idle")
                  => (tick_pc'[p] = "locked" /\ tick_lock' /\ StageFiles' = StageFiles)
            /\ (tick_pc[p] = "locked" /\ tick_pc'[p] # "locked")
                  => (/\ tick_pc'[p] = "idle"
                      /\ tick_lock' = tick_lock
                      /\ tick_state'.state = "LOCKED"
                      /\ StageFiles' = StageFiles)]_vars
\* One tick is inside a stage while another has found the lock taken.
C13_Witness ==
    \E p, q \in TickProcs :
        /\ tick_pc[p] = "execution.oms_open"
        /\ tick_pc[q] = "locked"
        /\ tick_lock

\* C14: a stage that fails is the last stage of its tick; the tick then ends with
\* tick_state.json holding ok = false and halted_by = that stage and with
\* tick.lock released; a tick without a failing stage ends with ok = true and
\* halted_by null.
FailedStages == {i \in 1..Len(tick_hist.stages) : tick_hist.stages[i].rc # 0}
TickEnded == tick_pc[1] = "idle" /\ tick_hist.stages # <<>>
C14_FatalStepHandling ==
    /\ \A i \in FailedStages : i = Len(tick_hist.stages) /\ tick_pc[1] \in {"finish", "idle"}
    /\ TickEnded =>
          /\ tick_state.present
          /\ ~tick_lock
          /\ IF FailedStages # {}
             THEN /\ tick_state.ok = FALSE
                  /\ tick_state.halted_by = tick_hist.stages[Len(tick_hist.stages)].name
             ELSE /\ tick_state.ok = TRUE
                  /\ tick_state.halted_by = "None"
\* A tick ended after its gateway stage failed.
C14_Witness ==
    /\ TickEnded
    /\ FailedStages # {}
    /\ tick_hist.stages[Len(tick_hist.stages)].name = "pretrade_gateway.gateway"
    /\ Len(tick_hist.stages) = 5

\* C15: in a tick where no stage fails the stages run once each, one after the
\* other, in the order ledger, greeks, risk-eval, derisk-plan, derisk-exec,
\* gateway, OPEN issuer, OPEN executor, CLOSE executor.
StatedStageOrder ==
    <<"portfolio.positions_ledger", "portfolio.greeks", "risk_governor.portfolio_risk",
      "risk_governor.derisk_plan", "risk_governor.derisk_execute", "pretrade_gateway.gateway",
      "execution.oms_open", "execution.oms_open_exec", "execution.oms_close">>
C15_StageOrder ==
    (TickEnded /\ FailedStages = {}) =>
        /\ Len(tick_hist.stages) = Len(StatedStageOrder)
        /\ \A i \in 1..Len(StatedStageOrder) : tick_hist.stages[i].name = StatedStageOrder[i]

\* C16: when the executor reads an intent (closes allowed, intent present) whose
\* age, now minus its ts floored at 0 with an unparseable ts taken as epoch 0, is
\* greater than OMS_INTENT_MAX_AGE_SEC, the run ends in REJECT with a STALE_INTENT
\* reason and changes neither the intent nor the book; an intent whose age is at
\* most the maximum is not rejected as stale.
StatedAge(ts) == IF ~ts.valid THEN NowEpoch ELSE Max0(NowEpoch - ts.epoch)
ReadsIntent ==
    /\ get_risk_mode(risk_mode) \in {"NORMAL", "DEGRADED"}
    /\ close_intent.present
C17_IntentConsumedOnce ==
    /\ [](oms_close_state.state = "DONE" => ~close_intent.present)
    /\ [][/\ (get_risk_mode(risk_mode) \in {"NORMAL", "DEGRADED"} /\ ~close_intent.present)
               => /\ oms_close_state' = CloseState("NO_INTENT", "NO_CLOSE_INTENT", 0)
                  /\ positions_book' = positions_book
          /\ (positions_book' # positions_book)
               => (close_intent.present /\ ~close_intent'.present)]_vars
\* One action of an intent was applied, the intent is gone and a position remains
\* that a second application would reduce again.
C17_Witness ==
    /\ oms_close_state = CloseState("DONE", "None", 1)
    /\ ~close_intent.present
    /\ \E sym \in Symbols : Abs(positions_book.pos[sym]) = 1

\* C18: no two broker submissions carry the same dedup signature while the order
\* of the first is still active.
C18_NoDuplicateSubmission ==
    \A i, j \in 1..Len(broker_submits) :
        (i # j) => broker_submits[i] # broker_submits[j]

\* C19: in a run of the OPEN executor the removal of open_intent.json comes after
\* the append of the journal event BROKER_TRANSLATE_SUBMIT with ok = true, and a
\* run that journaled no such event removes no intent.
JournaledSuccessBefore(i) ==
    \E j \in 1..(i - 1) : exec_effects[j] = "journal_BROKER_TRANSLATE_SUBMIT_ok"
C19_DeleteAfterJournal ==
    /\ \A i \in 1..Len(exec_effects) :
          (exec_effects[i] = "unlink_open_intent") => JournaledSuccessBefore(i)
    /\ tick_hist.exec_consumed => JournaledSuccessBefore(Len(exec_effects))
\* The executor consumed an intent after a live submission.
C19_Witness ==
    /\ tick_hist.exec_consumed
    /\ tick_hist.exec_submitted
    /\ ~open_intent.present

\* C20: a run of the OPEN executor calls the broker's submit only when BROKER_MODE
\* is LIVE, ALLOW_LIVE_ORDERS is 1 and LIVE_LIMIT_PRICE is non-empty, and at most
\* once; under PLAN_ONLY it ends with submitted = false; with an acknowledgment
\* missing it ends with the error naming the one that is missing.
SubmitCalls == {i \in 1..Len(exec_effects) : exec_effects[i] = "submit_order"}
RanWithPlan == "journal_OPEN_EXEC_START_ok" \in {exec_effects[i] : i \in 1..Len(exec_effects)}
                  /\ oms_open_exec_state.state # "INTENT_INVALID"
C20_TwoModeContract ==
    /\ Cardinality(SubmitCalls) <= 1
    /\ (SubmitCalls # {}) =>
          (broker_env.mode = "LIVE" /\ broker_env.allow_live = "1" /\ broker_env.limit_price # "")
    /\ (broker_submits # <<>>) =>
          (broker_env.mode = "LIVE" /\ broker_env.allow_live = "1" /\ broker_env.limit_price # "")
    /\ (RanWithPlan /\ broker_env.mode = "PLAN_ONLY") =>
          (~oms_open_exec_state.submitted /\ broker_submits = <<>>)


\* C21: after a run of the OPEN executor on an intent with an order plan, a broker
\* result that is not ok (or a broker call that raised) leaves open_intent.json in
\* place, with a journal event BROKER_TRANSLATE_SUBMIT ok = false appended and a
\* stage state that reports no submitted order; a broker result that is ok leaves
\* no intent.
ExecEffects == {exec_effects[i] : i \in 1..Len(exec_effects)}
C21_FailureKeepsIntent ==
    /\ (ExecEffects \cap {"submit_open_not_ok", "submit_open_raised"} # {}) =>
          /\ open_intent.present
          /\ "journal_BROKER_TRANSLATE_SUBMIT_fail" \in ExecEffects
          /\ oms_open_exec_state.state # "OPEN_SUBMITTED"
          /\ ~oms_open_exec_state.submitted
    /\ ("submit_open_ok" \in ExecEffects) => ~open_intent.present
\* The same with the journal writable throughout the run.
C21_WithJournal ==
    (rc = 0) => C21_FailureKeepsIntent


\* C22: every write of positions_book.json, by the rebuild or by an accepted
\* CLOSE execution, leaves the book equal to the fold of positions.jsonl.
C22_BookIsFoldOfLog ==
    [][(positions_book' # positions_book) =>
          (positions_book'.pos = positions_to_map(book_positions(positions_log')))]_vars


\* C23: load_positions_book is the fold of the fills log: per symbol the sum of
\* the BUY quantities minus the sum of the SELL quantities over the FILL events
\* (other sides and other types ignored), without the symbols whose net is 0, the
\* same for every permutation of the log, and emitted sorted by symbol.
RECURSIVE SideQty(_, _, _, _)
SideQty(log, sym, side, i) ==
    IF i > Len(log) THEN 0
    ELSE (IF log[i].type = "FILL" /\ log[i].symbol = sym /\ Upper(log[i].side) = side
          THEN log[i].qty ELSE 0) + SideQty(log, sym, side, i + 1)
StatedNet(log, sym) == SideQty(log, sym, "BUY", 1) - SideQty(log, sym, "SELL", 1)
DictKeys(book) == {book.keys[i] : i \in 1..Len(book.keys)}
SameDict(a, b) == DictKeys(a) = DictKeys(b) /\ \A k \in DictKeys(a) : a.val[k] = b.val[k]
Permuted(log) == {[i \in 1..Len(log) |-> log[f[i]]] : f \in Permutations(1..Len(log))}
C23_LedgerFold ==
    LET book == load_positions_book(positions_log)
        emitted == book_positions(positions_log)
    IN /\ DictKeys(book) = {sym \in Symbols : StatedNet(positions_log, sym) # 0}
       /\ Len(book.keys) = Cardinality(DictKeys(book))
       /\ \A sym \in DictKeys(book) : book.val[sym] = StatedNet(positions_log, sym)
       /\ \A other \in Permuted(positions_log) :
             /\ SameDict(load_positions_book(other), book)
             /\ book_positions(other) = emitted
       /\ \A i \in 1..Len(emitted) :
             /\ emitted[i].net_qty = StatedNet(positions_log, emitted[i].symbol)
             /\ emitted[i].net_qty # 0
             /\ \A j \in 1..(i - 1) : SymRank(emitted[j].symbol) < SymRank(emitted[i].symbol)
\* A book rebuilt from a log with two fills that cancel and an ignored event.
C23_Witness ==
    /\ positions_book = BookOf(positions_to_map(book_positions(positions_log)))
    /\ \E sym \in Symbols : /\ SideQty(positions_log, sym, "BUY", 1) > 0
                             /\ StatedNet(positions_log, sym) = 0
    /\ \E i \in 1..Len(positions_log) :
           positions_log[i].type # "FILL" \/ Upper(positions_log[i].side) \notin {"BUY", "SELL"}


\* C24: a stage that finds its upstream file missing (positions_book.json for the
\* greeks builder, portfolio_greeks.json for the de-risk planner, derisk_plan.json
\* for the de-risk executor) ends with exit code 0 and does not halt the tick.
MissingInput(name) ==
    \/ name = "portfolio.greeks" /\ ~positions_book.present
    \/ name = "risk_governor.derisk_plan" /\ ~portfolio_greeks.present
    \/ name = "risk_governor.derisk_execute" /\ ~derisk_plan.present
C24_MissingInputRecoverable ==
    \A i \in 1..Len(tick_hist.stages) :
        MissingInput(tick_hist.stages[i].name) =>
            /\ tick_hist.stages[i].rc = 0
            /\ tick_hist.halted_by = "None"


\* C25: a reader of a state file (risk_mode.json, positions_book.json,
\* open_intent.json, close_intent.json, open_orders.json, tick_state.json) gets a
\* complete document, the previous one or the new one, never a partially written
\* file.
C25_NoPartialFile ==
    (file_read.file \in StateFiles) => (file_read.bytes.part = "full")
\* The same for the files written by the atomic_write functions.
C25_ReplaceWritersOnly ==
    (file_read.file # "none" /\ WriterOf(file_read.file) = "replace") =>
        file_read.bytes.part = "full"


\* C26: of two CLOSE executor processes at most one is between acquiring and
\* releasing oms_close.lock, and the lock exists exactly while one is; a process
\* that found the lock taken reports state LOCKED, leaves positions_book.json,
\* close_intent.json and the lock as they are; the holder leaves without the lock
\* on every exit path.
CloseHolders == {p \in CloseProcs : close_pc[p] \in {"holding", "ran"}}
C26_CloseExclusion ==
    /\ [](Cardinality(CloseHolders) <= 1 /\ (close_lock <=> CloseHolders # {}))
    /\ [][\A p \in CloseProcs :
            /\ (close_pc[p] = "locked" /\ close_pc'[p] # "locked") =>
                  /\ oms_close_state'.state = "LOCKED"
                  /\ positions_book' = positions_book
                  /\ close_intent' = close_intent
                  /\ close_lock' = close_lock
            /\ (close_pc[p] = "ran" /\ close_pc'[p] = "idle") => ~close_lock']_vars
\* One process holds the lock after an execution that filled a close, the other
\* found the lock taken.
C26_Witness ==
    \E p, q \in CloseProcs :
        /\ close_pc[p] = "ran"
        /\ close_pc[q] = "locked"
        /\ oms_close_state.state = "DONE"
        /\ close_lock
\* A holder whose run ended in an exception has left, and the lock is gone.
C26_WitnessException ==
    /\ rc = 1
    /\ \A p \in CloseProcs : close_pc[p] = "idle"
    /\ ~close_lock


CreatesRiskMode == risk_mode = "MISSING" /\ risk_mode' = "NORMAL"
C28_OpensOnlyInNormal ==
    /\ \A i \in 1..Len(vert.fill_modes) : vert.fill_modes[i] = "NORMAL"
    /\ \A k \in 1..Len(vert.snaps) : \A j \in 1..Len(vert.snaps) :
           (k < j /\ vert.snaps[k].risk_mode \in {"DEGRADED", "HALT"})
               => /\ vert.snaps[j].filled_long = vert.snaps[k].filled_long
                  /\ vert.snaps[j].filled_short = vert.snaps[k].filled_short
                  /\ vert.snaps[j].state # "DONE"

\* The part of C28 the code keeps: an iteration that reads HALT records no fill
\* and ends the run in HALT.
C28_HaltStops ==
    /\ \A i \in 1..Len(vert.fill_modes) : vert.fill_modes[i] # "HALT"
    /\ \A k \in 1..Len(vert.snaps) :
           vert.snaps[k].risk_mode = "HALT"
               => /\ k = Len(vert.snaps)
                  /\ vert.snaps[k].state = "HALT"
                  /\ vert.pc = "returned"

\* The governor sized the trade: the quote passed the liquidity gate and the
\* governor returned a decision.
Sized == sizing.called /\ validate_underlier_liquidity(sizing.ctx) = <<>> /\ ~sizing.raises

HasReason(reasons, r) == \E i \in 1..Len(reasons) : reasons[i] = r

\* C29: a candidate emitted with allow = true has an order_plan with
\* 1 <= qty <= qty_requested and qty <= floor(equity * pct / |worst_1|); when the
\* sized max_contracts is <= 0 the candidate has allow = false, no order_plan and
\* the reason SIZING_TO_ZERO_BY_LIMITS.
C29_GatewaySizing ==
    /\ (sizing.called /\ sizing.out.allow)
           => /\ sizing.out.has_plan
              /\ 1 <= sizing.out.qty
              /\ sizing.out.qty <= sizing.qty_requested
              /\ (sizing.worst_1 # 0)
                     => sizing.out.qty <= sizing.budget \div Abs(sizing.worst_1)
    /\ (Sized /\ sizing.out.decision.max_contracts <= 0)
           => /\ ~sizing.out.allow
              /\ ~sizing.out.has_plan
              /\ HasReason(sizing.out.decision.reasons, "SIZING_TO_ZERO_BY_LIMITS")

\* What the code keeps of C29: for a request of at least one contract on a spread
\* that loses in its worst scenario, the statement holds.
C29_SizingOfLosingSpread ==
    (sizing.called /\ sizing.qty_requested >= 1 /\ sizing.worst_1 < 0) => C29_GatewaySizing

\* The statuses C30 lists as terminal.
ListedTerminal == {"filled", "canceled", "rejected", "expired", "failed"}

\* After a completed poll: no id fetched with a status in T is in open_orders.json,
\* changed or not; an id fetched with another status is tracked with that status;
\* an id whose fetch failed keeps its entry.
PrunedExactly(T) ==
    poll.done =>
        \A o \in OrderIds :
            /\ (poll.fetched[o] \in T) => open_orders[o] = "untracked"
            /\ (poll.fetched[o] \notin T \cup {"not_polled", "fetch_failed"})
                   => open_orders[o] = poll.fetched[o]
            /\ (poll.fetched[o] = "fetch_failed")
                   => open_orders[o] = poll.prev[o] /\ open_orders[o] # "untracked"

\* C30 as stated: after poll_once completes, open_orders.json holds no order whose
\* fetched status normalises to filled, canceled, rejected, expired or failed,
\* changed or not, and orders with any other status or a failed fetch stay tracked.
C30_PruneListedTerminal == PrunedExactly(ListedTerminal)

\* C30 amended: the same with the terminal statuses of the code, which also hold
\* the spelling cancelled.
C30_PruneTerminal == PrunedExactly(TERMINAL_STATUSES)

\* A completed poll that pruned an order whose terminal status did not change and
\* kept an order whose fetch failed.
C30_Witness ==
    /\ poll.done
    /\ \E o \in OrderIds : /\ poll.fetched[o] \in TERMINAL_STATUSES
                           /\ poll.fetched[o] = poll.prev[o]
                           /\ open_orders[o] = "untracked"
    /\ \E o \in OrderIds : poll.fetched[o] = "fetch_failed" /\ open_orders[o] # "untracked"


\* C31: when a journal append fails during the OPEN executor stage of a tick, the
\* executor still writes its stage state and exits with code 0, and the tick sets
\* no halted_by and goes on to the CLOSE executor.
C31_JournalNeverFailsTick ==
    [][(tick_pc[1] = "execution.oms_open_exec" /\ tick_pc'[1] # "execution.oms_open_exec"
        /\ \E i \in 1..Len(exec_effects') : exec_effects'[i] = "journal_append_raised")
          => /\ rc' = 0
             /\ \E i \in 1..Len(exec_effects') : exec_effects'[i] = "write_oms_open_exec_state"
             /\ tick_hist'.halted_by = "None"
             /\ tick_pc'[1] = "execution.oms_close"]_vars


\* The rank C32 states for a candidate.
StatedRank(c) == (IF c.allow THEN 1 ELSE 0) * 1000 + c.max_contracts * 10 - c.n_reasons * 50

\* w is the first candidate of greatest stated rank.
IsWinner(cands, w) ==
    /\ w \in 1..Len(cands)
    /\ \A j \in 1..Len(cands) : StatedRank(cands[j]) <= StatedRank(cands[w])
    /\ \A j \in 1..(w - 1) : StatedRank(cands[j]) < StatedRank(cands[w])

\* What C32 states about a run of the issuer under mode NORMAL.
IssuerOutcomeAsStated ==
    LET cands == load_gate_candidates(gate_out) IN
    IF cands = <<>>
    THEN ~open_intent'.present /\ oms_open_state'.state = "NO_CANDIDATE"
    ELSE \E w \in 1..Len(cands) :
            /\ IsWinner(cands, w)
            /\ IF cands[w].allow
               THEN open_intent' = [present |-> TRUE, candidate |-> cands[w].name,
                                    has_plan |-> cands[w].has_plan, qty |-> cands[w].qty]
               ELSE ~open_intent'.present /\ oms_open_state'.state = "CANDIDATE_BLOCKED"

\* C32: a run of the OPEN issuer under mode NORMAL selects the first candidate of
\* greatest rank; open_intent.json exists at exit iff there is a winner and it is
\* allowed, and then carries the winner's name, order plan and decision; otherwise
\* no intent is left and the state is NO_CANDIDATE or CANDIDATE_BLOCKED.
C32_IssuerInNormal ==
    [][(risk_mode = "NORMAL" /\ open_effects' # <<>>) => IssuerOutcomeAsStated]_vars

\* The same for the runs of the issuer that return normally.
C32_WhenIssuerReturns ==
    [][(risk_mode = "NORMAL" /\ open_effects' # <<>> /\ rc' = 0) => IssuerOutcomeAsStated]_vars


\* The transitions C33 allows.
StatedTransitions ==
    {<<"INIT", "SUBMIT_LONG">>, <<"SUBMIT_LONG", "SUBMIT_SHORT">>, <<"SUBMIT_SHORT", "DONE">>}
        \cup ({"INIT", "SUBMIT_LONG", "SUBMIT_SHORT"} \X {"HALT", "FAIL"})

\* C33: the state of the OPEN state machine changes only along INIT -> SUBMIT_LONG
\* -> SUBMIT_SHORT -> DONE or from a non-terminal state to HALT or FAIL; DONE, HALT
\* and FAIL are never left or overridden; a state left along the chain was written
\* to oms_state.json before, and the run returns with its last state written.
C33_Transitions ==
    [][/\ (vert.pc = "loop" /\ vert'.state # vert.state)
              => /\ <<vert.state, vert'.state>> \in StatedTransitions
                 /\ (vert'.state \notin {"HALT", "FAIL"})
                        => \E i \in 1..Len(vert'.snaps) : vert'.snaps[i].state = vert.state
       /\ (vert.pc = "loop" /\ vert'.pc = "returned")
              => vert'.snaps[Len(vert'.snaps)].state = vert'.state]_vars

\* What the code keeps of C33: the same for the states other than DONE and FAIL,
\* which the guard of the following iteration can still replace.
C33_UntilTerminal ==
    [][(vert.pc = "loop" /\ vert'.state # vert.state /\ vert.state \notin {"DONE", "FAIL"})
          => <<vert.state, vert'.state>> \in StatedTransitions]_vars


\* |x| <= buffer_pct * hard limit on every axis.
StatedWithin(t) ==
    /\ Abs(t.delta) * buffer_pct_den <= max_abs_delta * buffer_pct_num
    /\ Abs(t.gamma) * buffer_pct_den <= max_abs_gamma * buffer_pct_num
    /\ Abs(t.vega) * buffer_pct_den <= max_abs_vega * buffer_pct_num

RECURSIVE SumQty(_)
SumQty(actions) ==
    IF actions = <<>> THEN 0 ELSE Head(actions).qty + SumQty(Tail(actions))

\* Contracts of sym the plan closes.
ClosedOf(actions, sym) ==
    IF \E i \in 1..Len(actions) : actions[i].symbol = sym
    THEN (CHOOSE a \in {actions[i] : i \in 1..Len(actions)} : a.symbol = sym).qty
    ELSE 0

\* The rows of the snapshot as the loop leaves them: the planned closes taken off.
RowsLeft(rows, actions) ==
    {[rows[i] EXCEPT !.net_qty = @ - sgn(@) * ClosedOf(actions, rows[i].symbol)] :
        i \in {j \in 1..Len(rows) : Abs(rows[j].net_qty) > ClosedOf(actions, rows[j].symbol)}}

AddTotals(t, eff) ==
    [delta |-> t.delta + eff.delta, gamma |-> t.gamma + eff.gamma, vega |-> t.vega + eff.vega]

\* The planner stage of the tick has just written its plan for portfolio_greeks.json.
PlanJustBuilt == tick_pc[1] = "risk_governor.derisk_execute" /\ tick_hist.plan_ran

C34_WitnessOK ==
    /\ PlanJustBuilt
    /\ derisk_plan.status = "OK"
    /\ Len(tick_hist.plan_trace) >= 3


\* net_qty of sym in the snapshot g, 0 when g has no row for it.
SnapshotNet(g, sym) ==
    IF \E i \in 1..Len(g.positions) : g.positions[i].symbol = sym
    THEN (CHOOSE r \in {g.positions[i] : i \in 1..Len(g.positions)} : r.symbol = sym).net_qty
    ELSE 0

\* The positions book that agrees with the snapshot g.
SnapshotBook(g) == [s \in Symbols |-> SnapshotNet(g, s)]

ReduceOnlyValid(actions, g) ==
    /\ \A i, j \in 1..Len(actions) : actions[i].symbol = actions[j].symbol => i = j
    /\ \A i \in 1..Len(actions) :
          LET a == actions[i]
              net == SnapshotNet(g, a.symbol)
          IN /\ 1 <= a.qty
             /\ a.qty <= Abs(net)
             /\ a.close_side \in {"SELL", "BUY"}
             /\ a.close_side = "SELL" <=> net > 0
             /\ a.close_side = "BUY" <=> net < 0
    /\ SumQty(actions) <= max_contracts_to_close

\* The de-risk executor of the tick has just run on the plan of this tick.
PlanJustCopied == tick_pc[1] = "pretrade_gateway.gateway" /\ tick_hist.plan_ran

\* C35: the plan the planner writes is reduce-only valid for the snapshot it was
\* built from (one action per symbol, 1 <= qty <= |net_qty|, SELL iff net_qty > 0,
\* BUY iff net_qty < 0, total qty <= max_contracts_to_close), and the close intent
\* the de-risk executor copies from it has no reduce-only breach against the book
\* that agrees with the snapshot.
C35_PlanReduceOnly ==
    /\ PlanJustBuilt => ReduceOnlyValid(derisk_plan.actions, portfolio_greeks)
    /\ PlanJustCopied =>
          /\ close_intent.present <=> derisk_plan.actions # <<>>
          /\ close_intent.present =>
                /\ close_intent.actions = derisk_plan.actions
                /\ normalize_actions(close_intent.actions) # <<>>
                /\ validate_reduce_only(normalize_actions(close_intent.actions),
                                        SnapshotBook(portfolio_greeks)) = {}

\* An intent copied from a plan that buys back a short position.
C35_Witness ==
    /\ PlanJustCopied
    /\ close_intent.present
    /\ \E i \in 1..Len(close_intent.actions) :
          /\ close_intent.actions[i].close_side = "BUY"
          /\ SnapshotNet(portfolio_greeks, close_intent.actions[i].symbol) < 0


\* ------------------------------------------- ticks that can be terminated
\* The process of tick p is terminated (SIGKILL, SIGTERM with the default handler,
\* power loss) after acquire_lock returned True and before the finally block of
\* tick.main ran: nothing more of tick.main is executed, the files stay as they are.
TickKilled(p) ==
    /\ tick_pc[p] \notin {"idle", "locked"}
    /\ tick_pc' = [tick_pc EXCEPT ![p] = "idle"]
    /\ UNCHANGED <<risk_mode, gate_out, openVars, closeVars, riskVars, envVars, execVars, rc,
                   tick_lock, tick_state, tick_hist>>

NextKill ==
    \/ \E p \in TickProcs : TickOf(p)
    \/ \E p \in TickProcs : TickKilled(p)

SpecKill == InitLock /\ [][NextKill]_vars

\* C36: whenever no tick process is running, tick.lock does not exist (so the next
\* tick acquires it), after any history of ticks, terminated ones included.  It
\* holds of SpecLock, where every tick reaches its finally block.
C36_LockAvailable ==
    (\A p \in TickProcs : tick_pc[p] = "idle") => ~tick_lock

\* After a terminated tick no later tick acquires the lock: every one reports LOCKED.
C36_StaleLockStays ==
    [][(tick_lock /\ \A p \in TickProcs : tick_pc[p] \in {"idle", "locked"}) => tick_lock']_vars


\* The snapshot the run left in oms_state.json when it returned.
LastSnap == vert.snaps[Len(vert.snaps)]

\* The quantity the fills log holds for one side.
LoggedQty(side) ==
    LET F[i \in 0..Len(positions_log)] ==
            IF i = 0 THEN 0
            ELSE F[i - 1] + (IF positions_log[i].side = side THEN positions_log[i].qty ELSE 0)
    IN F[Len(positions_log)]

\* C37: a run that returned reports equal long and short fills (both 0 or both
\* qty), they are the fills of the log, and its state is DONE iff both legs' fills
\* were recorded; no run ends with only the long fill in the log.
C37_NoLeggedPosition ==
    vert.pc = "returned" =>
        /\ LastSnap.filled_long = LastSnap.filled_short
        /\ LastSnap.filled_long \in {0, vert.plan.qty}
        /\ LoggedQty("BUY") = LastSnap.filled_long
        /\ LoggedQty("SELL") = LastSnap.filled_short
        /\ LastSnap.state = "DONE" <=> (LastSnap.filled_long > 0 /\ LastSnap.filled_short > 0)

\* What the code keeps of C37: the snapshot reports the fills of the log, the short
\* leg is never filled without the long leg, and DONE is reported only with both.
C37_ReportsTheLog ==
    vert.pc = "returned" =>
        /\ LoggedQty("BUY") = LastSnap.filled_long
        /\ LoggedQty("SELL") = LastSnap.filled_short
        /\ LastSnap.filled_short \in {0, LastSnap.filled_long}
        /\ LastSnap.state = "DONE" => (LastSnap.filled_long > 0 /\ LastSnap.filled_short > 0)

\* Only the second half of C37 (no run ends with the long leg alone).
C37_NeverLongOnly ==
    vert.pc = "returned" => ~(LoggedQty("BUY") > 0 /\ LoggedQty("SELL") = 0)


\* The issuer ran under mode NORMAL, returned normally, and gate_out.json held an
\* allowed candidate.
IssuerRanWithAllowed ==
    /\ risk_mode = "NORMAL"
    /\ open_effects' # <<>>
    /\ rc' = 0
    /\ \E i \in 1..Len(load_gate_candidates(gate_out)) : load_gate_candidates(gate_out)[i].allow

\* C38: a run of the OPEN issuer under mode NORMAL over a gate_out.json with at
\* least one allowed candidate selects an allowed candidate and writes
\* open_intent.json for it.
C38_NeverPassesOverAllowed ==
    [][IssuerRanWithAllowed
          => /\ open_intent'.present
             /\ oms_open_state'.state # "CANDIDATE_BLOCKED"
             /\ \E i \in 1..Len(load_gate_candidates(gate_out)) :
                   /\ load_gate_candidates(gate_out)[i].allow
                   /\ open_intent'.candidate = load_gate_candidates(gate_out)[i].name]_vars

\* What the code keeps of C38: among candidates with the same max_contracts and
\* the same number of reasons an allowed one is never passed over.
C38_AllowedWinsAmongEquals ==
    [][(/\ IssuerRanWithAllowed
        /\ \A i, j \in 1..Len(load_gate_candidates(gate_out)) :
              /\ load_gate_candidates(gate_out)[i].max_contracts
                    = load_gate_candidates(gate_out)[j].max_contracts
              /\ load_gate_candidates(gate_out)[i].n_reasons
                    = load_gate_candidates(gate_out)[j].n_reasons)
          => /\ open_intent'.present
             /\ \E i \in 1..Len(load_gate_candidates(gate_out)) :
                   /\ load_gate_candidates(gate_out)[i].allow
                   /\ open_intent'.candidate = load_gate_candidates(gate_out)[i].name]_vars


\* The evaluator has run and risk_mode.json holds the NORMAL it wrote.
EvaluatorWroteNormal == risk_eval.present /\ risk_eval.mode_decision = "NORMAL" /\ risk_mode = "NORMAL"

\* The snapshot as read: within every limit and without an IV-fallback row.
ReadWithinLimits ==
    LET t == portfolio_greeks.totals IN
    /\ Magnitude(t, "abs_delta", t.delta) <= max_abs_delta
    /\ Magnitude(t, "abs_gamma", t.gamma) <= max_abs_gamma
    /\ Magnitude(t, "abs_vega", t.vega) <= max_abs_vega
    /\ \A i \in 1..Len(portfolio_greeks.positions) :
          Upper(portfolio_greeks.positions[i].iv_src) \notin {"FALLBACK_DEFAULT", "FALLBACK", "DEFAULT"}

\* C39: the evaluator writes NORMAL only if portfolio_greeks.json exists, is
\* readable, and its totals are within all limits with no IV-fallback row; it
\* never writes NORMAL when the snapshot is missing, unreadable or without totals.
C39_EvaluatorFailsClosed ==
    EvaluatorWroteNormal => (portfolio_greeks.present /\ ReadWithinLimits)

\* What the code keeps of C39: NORMAL is written only when what was read (nothing,
\* for a missing or unreadable file) shows no breach and no IV-fallback row.
C39_NormalOnlyWithoutBreach ==
    EvaluatorWroteNormal => ReadWithinLimits


\* ----------------------------- a close intent and interrupted CLOSE executors
\* One close intent is issued by the de-risk stages (greeks, planner, executor, each
\* run once, in this order) from the book; CLOSE executor processes then run, and
\* a run can be interrupted after it rewrote positions_book.json (line 338) and
\* before it deleted close_intent.json (line 341).
IssueGreeks ==
    /\ ~portfolio_greeks.present
    /\ BuildPortfolioGreeks("OK_MIDS")
    /\ UNCHANGED <<risk_mode, closeVars, derisk_plan, risk_eval, close_lock, close_pc>>

IssuePlan ==
    /\ portfolio_greeks.present
    /\ ~derisk_plan.present
    /\ DeriskPlan
    /\ UNCHANGED <<risk_mode, closeVars, portfolio_greeks, risk_eval, close_lock, close_pc>>

IssueIntent ==
    /\ derisk_plan.present
    /\ ~close_intent.present
    /\ oms_close_state.state = "NONE"
    /\ positions_book.pos = SnapshotBook(portfolio_greeks)
    /\ DeriskExecute
    /\ UNCHANGED <<risk_mode, positions_book, positions_log, oms_close_state, riskVars,
                   close_lock, close_pc>>

\* oms_close.main of the lock holder p, interrupted between the atomic_write of
\* the book and os.remove of the intent.  unwinds: the interruption is an
\* exception raised in the process (KeyboardInterrupt on SIGINT), so the finally
\* block still runs; otherwise the process is gone at once (SIGKILL, SIGTERM, power
\* loss) and oms_close.lock stays.  oms_close_state.json is not written.
CloseInterrupted(p, unwinds) ==
    /\ close_pc[p] = "holding"
    /\ get_risk_mode(risk_mode) # "RAISE"
    /\ allow_close_trades(risk_mode)
    /\ close_intent.present
    /\ age_sec(close_intent.ts) <= OMS_INTENT_MAX_AGE_SEC
    /\ normalize_actions(close_intent.actions) # <<>>
    /\ validate_reduce_only(normalize_actions(close_intent.actions), positions_book.pos) = {}
    /\ positions_book' = BookOf(apply_fills(positions_book.pos,
                                            normalize_actions(close_intent.actions), 1))
    /\ risk_mode' = ensure_risk_mode_file(risk_mode)
    /\ rc' = 1
    /\ close_pc' = [close_pc EXCEPT ![p] = IF unwinds THEN "ran" ELSE "idle"]
    /\ UNCHANGED <<positions_log, close_intent, oms_close_state, close_lock>>

InitCrash ==
    /\ InitFiles
    /\ risk_mode \in {"NORMAL", "DEGRADED", "HALT"}
    /\ open_intent = NoOpenIntent
    /\ gate_out = NoGateOut
    /\ positions_book \in Books
    /\ close_intent = NoCloseIntent
    /\ broker_env = BrokerEnv("PLAN_ONLY", "0", "")

CrashFrame == UNCHANGED <<gate_out, openVars, broker_env, fs, file_read, vert, sizing,
                          open_orders, poll, execVars, tickVars>>

NextCrash ==
    \/ IssueGreeks /\ CrashFrame
    \/ IssuePlan /\ CrashFrame
    \/ IssueIntent /\ CrashFrame
    \/ \E p \in CloseProcs : CloserOf(p)
    \/ \E p \in CloseProcs, unwinds \in BOOLEAN :
          CloseInterrupted(p, unwinds) /\ UNCHANGED riskVars /\ CrashFrame

SpecCrash == InitCrash /\ [][NextCrash]_vars

\* C40: whatever runs of the CLOSE executor were interrupted between the rewrite
\* of the book and the deletion of the intent, the book is reduced, on every
\* symbol, by at most the quantity the intent closes on it: the intent's actions
\* are applied at most once.
C40_AppliedAtMostOnce ==
    (portfolio_greeks.present /\ derisk_plan.present) =>
        \A sym \in Symbols :
            Abs(SnapshotNet(portfolio_greeks, sym)) - Abs(positions_book.pos[sym])
                <= ClosedOf(derisk_plan.actions, sym)

\* What the code keeps of C40: the intent never takes a position through zero or
\* past it, and while the lock of a killed executor stays no run changes the book.
C40_NeverPastZero ==
    portfolio_greeks.present =>
        \A sym \in Symbols :
            /\ Abs(positions_book.pos[sym]) <= Abs(SnapshotNet(portfolio_greeks, sym))
            /\ sgn(positions_book.pos[sym]) \in {0, sgn(SnapshotNet(portfolio_greeks, sym))}

C40_StaleLockBlocks ==
    [][(close_lock /\ \A p \in CloseProcs : close_pc[p] \in {"idle", "locked"})
          => positions_book' = positions_book]_vars

====
